---- MODULE Spec2Model ----
(***************************************************************************)
(* Idempotent reconciliation core of the cd60.nce collection:              *)
(*   plugins/module_utils/nce_utils.py     (Normalizer, Differ)            *)
(*   plugins/module_utils/nce_http.py      (iter_paged, HTTP verbs)        *)
(*   plugins/module_utils/nce_resource.py  (Matcher, Reconciler)           *)
(*   plugins/modules/nce_site.py           (site module, embedded variant) *)
(*                                                                         *)
(* JSON-like values are tagged records:                                    *)
(*   [t |-> "null"]            Python None                                 *)
(*   [t |-> "str",  s |-> x]   a string                                    *)
(*   [t |-> "num",  n |-> x]   an integer                                  *)
(*   [t |-> "list", l |-> q]   a list, q a sequence of values              *)
(*   [t |-> "dict", d |-> f]   a dict, f a function from keys to values    *)
(***************************************************************************)
EXTENDS Integers, Sequences, FiniteSets, TLC

\* ------------------------------------------------------------------------
\* Bounds of the model
\* ------------------------------------------------------------------------
MaxRemote == 2      \* longest initial remote collection drawn from RecordPool
PageSize == 2       \* page_size handed to the pager (the code's default is 100)
MaxPages == 4       \* max_pages of the pager (the code's default is 1000)
MaxPageNo == 4      \* page numbers of the uncapped loops from here on are not told apart
TotalMax == 4       \* largest total the remote system reports; all_len is counted up to it

\* ------------------------------------------------------------------------
\* JSON-like values
\* ------------------------------------------------------------------------
Null == [t |-> "null"]
Str(x) == [t |-> "str", s |-> x]
Num(x) == [t |-> "num", n |-> x]
List(q) == [t |-> "list", l |-> q]
Dict(f) == [t |-> "dict", d |-> f]
EmptyDict == Dict(<<>>)

IsDict(x) == x.t = "dict"
IsList(x) == x.t = "list"
IsNull(x) == x.t = "null"

\* Python truthiness: None, "", 0, [] and {} are falsy
Truthy(x) ==
    CASE x.t = "null" -> FALSE
      [] x.t = "str"  -> x.s # ""
      [] x.t = "num"  -> x.n # 0
      [] x.t = "list" -> Len(x.l) > 0
      [] x.t = "dict" -> DOMAIN x.d # {}

\* d.get(k): the value under k, None when k is missing
Get(d, k) == IF k \in DOMAIN d.d THEN d.d[k] ELSE Null

\* `x or {}`
OrEmptyDict(x) == IF Truthy(x) THEN x ELSE EmptyDict


\* ------------------------------------------------------------------------
\* nce_utils.py
\* ------------------------------------------------------------------------
READONLY_KEYS ==
    {"id", "uuid", "createTime", "create_time", "createdAt",
     "updateTime", "update_time", "updatedAt"}

\* a prune_unset that does not look into sequences
RECURSIVE prune_unset_not_in_lists(_)
prune_unset_not_in_lists(value) ==
    IF IsDict(value)
    THEN Dict([k \in {j \in DOMAIN value.d : ~IsNull(value.d[j])} |->
                  prune_unset_not_in_lists(value.d[k])])
    ELSE value

RECURSIVE prune_unset(_)
prune_unset(value) ==
    IF IsDict(value)
    THEN Dict([k \in {j \in DOMAIN value.d : ~IsNull(value.d[j])} |->
                  prune_unset(value.d[k])])
    ELSE IF IsList(value)
    THEN List([i \in 1..Len(value.l) |-> prune_unset(value.l[i])])
    ELSE value

\* a strip_readonly of the top level only
strip_readonly_top(x, readonly_keys) ==
    IF IsDict(x)
    THEN Dict([k \in (DOMAIN x.d) \ readonly_keys |-> x.d[k]])
    ELSE x

RECURSIVE strip_readonly(_, _)
strip_readonly(x, readonly_keys) ==
    IF IsDict(x)
    THEN Dict([k \in (DOMAIN x.d) \ readonly_keys |->
                  strip_readonly(x.d[k], readonly_keys)])
    ELSE IF IsList(x)
    THEN List([i \in 1..Len(x.l) |-> strip_readonly(x.l[i], readonly_keys)])
    ELSE x

\* a merge of the top level only: a mapping of overlay replaces base's
deep_merge_shallow(base, overlay) ==
    IF IsNull(base) THEN overlay
    ELSE IF IsNull(overlay) THEN base
    ELSE IF IsDict(base) /\ IsDict(overlay)
    THEN Dict([k \in (DOMAIN base.d) \cup (DOMAIN overlay.d) |->
                  IF k \in DOMAIN overlay.d THEN overlay.d[k] ELSE base.d[k]])
    ELSE overlay

\* a merge in which the values of base win over those of overlay
RECURSIVE deep_merge_base_wins(_, _)
deep_merge_base_wins(base, overlay) ==
    IF IsNull(base) THEN overlay
    ELSE IF IsNull(overlay) THEN base
    ELSE IF IsDict(base) /\ IsDict(overlay)
    THEN Dict([k \in (DOMAIN base.d) \cup (DOMAIN overlay.d) |->
                  IF k \in DOMAIN base.d
                  THEN IF k \in DOMAIN overlay.d
                       THEN deep_merge_base_wins(base.d[k], overlay.d[k])
                       ELSE base.d[k]
                  ELSE overlay.d[k]])
    ELSE base

RECURSIVE deep_merge(_, _)
deep_merge(base, overlay) ==
    IF IsNull(base) THEN overlay
    ELSE IF IsNull(overlay) THEN base
    ELSE IF IsDict(base) /\ IsDict(overlay)
    THEN Dict([k \in (DOMAIN base.d) \cup (DOMAIN overlay.d) |->
                  IF k \in DOMAIN overlay.d
                  THEN IF k \in DOMAIN base.d
                       THEN deep_merge(base.d[k], overlay.d[k])
                       ELSE overlay.d[k]
                  ELSE base.d[k]])
    ELSE overlay

\* ------------------------------------------------------------------------
\* _canon_key: json.dumps(obj, sort_keys=True, separators=(",", ":")) as the
\* sequence of the code points of the text it produces
\* ------------------------------------------------------------------------
\* code points of the strings the model uses
StrCodes(s) ==
    CASE s = ""         -> <<>>
      [] s = "S1"       -> <<83, 49>>
      [] s = "S2"       -> <<83, 50>>
      [] s = "X"        -> <<88>>
      [] s = "Y"        -> <<89>>
      [] s = "a"        -> <<97>>
      [] s = "b"        -> <<98>>
      [] s = "T"        -> <<84>>
      [] s = "id"       -> <<105, 100>>
      [] s = "name"     -> <<110, 97, 109, 101>>
      [] s = "city"     -> <<99, 105, 116, 121>>
      [] s = "timezone" -> <<116, 105, 109, 101, 122, 111, 110, 101>>
      [] s = "tags"     -> <<116, 97, 103, 115>>
      [] s = "geo"      -> <<103, 101, 111>>
      [] s = "lat"      -> <<108, 97, 116>>
      [] s = "lon"      -> <<108, 111, 110>>
      [] s = "c"        -> <<99>>
      [] s = "d"        -> <<100>>
      [] s = "before"   -> <<98, 101, 102, 111, 114, 101>>
      [] s = "after"    -> <<97, 102, 116, 101, 114>>
      [] s = "s1"       -> <<115, 49>>
      [] s = "1"        -> <<49>>

\* Python's str/sequence order: lexicographic on code points
LexLess(a, b) ==
    \E i \in 1..(Len(b)) :
        /\ \A j \in 1..(i - 1) : j <= Len(a) /\ a[j] = b[j]
        /\ (i > Len(a) \/ (i <= Len(a) /\ a[i] < b[i]))

\* decimal digits of a non-negative integer
RECURSIVE Digits(_)
Digits(n) == IF n < 10 THEN <<48 + n>> ELSE Digits(n \div 10) \o <<48 + (n % 10)>>

\* the keys of a dict in sorted order (sort_keys=True)
RECURSIVE SortedKeys(_)
SortedKeys(S) ==
    IF S = {} THEN <<>>
    ELSE LET m == CHOOSE k \in S :
                    \A j \in S \ {k} : LexLess(StrCodes(k), StrCodes(j))
         IN <<m>> \o SortedKeys(S \ {m})

RECURSIVE JoinCodes(_, _)
JoinCodes(parts, sep) ==
    IF Len(parts) = 0 THEN <<>>
    ELSE IF Len(parts) = 1 THEN parts[1]
    ELSE parts[1] \o sep \o JoinCodes(Tail(parts), sep)

RECURSIVE _canon_key(_)
_canon_key(obj) ==
    CASE obj.t = "null" -> <<110, 117, 108, 108>>
      [] obj.t = "str"  -> <<34>> \o StrCodes(obj.s) \o <<34>>
      [] obj.t = "num"  -> IF obj.n < 0 THEN <<45>> \o Digits(0 - obj.n) ELSE Digits(obj.n)
      [] obj.t = "list" ->
            <<91>> \o JoinCodes([i \in 1..Len(obj.l) |-> _canon_key(obj.l[i])], <<44>>) \o <<93>>
      [] obj.t = "dict" ->
            LET ks == SortedKeys(DOMAIN obj.d)
            IN <<123>> \o
               JoinCodes([i \in 1..Len(ks) |->
                            <<34>> \o StrCodes(ks[i]) \o <<34, 58>> \o _canon_key(obj.d[ks[i]])],
                         <<44>>)
               \o <<125>>

\* sorted(items, key=_canon_key): a stable insertion sort on the canonical key
RECURSIVE InsertSorted(_, _)
InsertSorted(q, x) ==
    IF Len(q) = 0 THEN <<x>>
    ELSE IF LexLess(_canon_key(x), _canon_key(q[Len(q)]))
    THEN InsertSorted(SubSeq(q, 1, Len(q) - 1), x) \o <<q[Len(q)]>>
    ELSE q \o <<x>>

\* no sort at all
Unsorted(q) == q

RECURSIVE SortedByCanonKey(_)
SortedByCanonKey(q) ==
    IF Len(q) = 0 THEN <<>>
    ELSE InsertSorted(SortedByCanonKey(SubSeq(q, 1, Len(q) - 1)), q[Len(q)])

\* ".".join(path_tuple)
RECURSIVE DottedPath(_)
DottedPath(path) ==
    IF Len(path) = 0 THEN ""
    ELSE IF Len(path) = 1 THEN path[1]
    ELSE path[1] \o "." \o DottedPath(Tail(path))

\* every list unordered, whatever the ordered-list path set
_is_list_ordered_never(path_tuple, ordered_list_paths) == FALSE

\* ordered_list_paths is a set of dotted strings; None is the empty set
_is_list_ordered(path_tuple, ordered_list_paths) ==
    IF ordered_list_paths = {} THEN FALSE
    ELSE DottedPath(path_tuple) \in ordered_list_paths

RECURSIVE normalize_for_compare(_, _, _)
normalize_for_compare(value, ordered_list_paths, path) ==
    IF IsDict(value)
    THEN Dict([k \in DOMAIN value.d |->
                  normalize_for_compare(value.d[k], ordered_list_paths, Append(path, k))])
    ELSE IF IsList(value)
    THEN LET normalized_items ==
                 [i \in 1..Len(value.l) |->
                     normalize_for_compare(value.l[i], ordered_list_paths, path)]
         IN IF _is_list_ordered(path, ordered_list_paths)
            THEN List(normalized_items)
            ELSE List(SortedByCanonKey(normalized_items))
    ELSE value

\* ------------------------------------------------------------------------
\* The Differ.  Raise stands for the AttributeError of `cur.get(k)` on a
\* value that is truthy and not a dict.
\* ------------------------------------------------------------------------
Raise == [t |-> "raise"]
IsRaise(x) == x.t = "raise"

RECURSIVE subset_diff(_, _, _, _)
subset_diff(current, desired_subset, ordered_list_paths, path) ==
    IF IsDict(desired_subset)
    THEN LET cur == OrEmptyDict(current)
             ks == DOMAIN desired_subset.d
         IN IF ks # {} /\ ~IsDict(cur) THEN Raise
            ELSE LET sub == [k \in ks |->
                               subset_diff(Get(cur, k), desired_subset.d[k],
                                           ordered_list_paths, Append(path, k))]
                     diff == {k \in ks : ~IsNull(sub[k])}
                 IN IF \E k \in ks : IsRaise(sub[k]) THEN Raise
                    ELSE IF diff # {} THEN Dict([k \in diff |-> sub[k]])
                    ELSE Null
    ELSE IF IsList(desired_subset)
    THEN LET cur_norm == normalize_for_compare(current, ordered_list_paths, path)
             des_norm == normalize_for_compare(desired_subset, ordered_list_paths, path)
         IN IF cur_norm # des_norm THEN desired_subset ELSE Null
    ELSE IF current # desired_subset THEN desired_subset ELSE Null

\* _helper returns the pair (before, after), (None, None) when nothing changed
Pair(before, after) == [t |-> "pair", b |-> before, a |-> after]
NoChange == Pair(Null, Null)

\* a _helper that compares and reports the values as wholes
_helper_whole(cur0, des, ordered_list_paths, pth) ==
    IF cur0 # des THEN Pair(cur0, des) ELSE Pair(Null, Null)

RECURSIVE _helper(_, _, _, _)
_helper(cur0, des, ordered_list_paths, pth) ==
    IF IsDict(des)
    THEN LET cur == OrEmptyDict(cur0)
             ks == DOMAIN des.d
         IN IF ks # {} /\ ~IsDict(cur) THEN Raise
            ELSE LET sub == [k \in ks |->
                               _helper(Get(cur, k), des.d[k], ordered_list_paths,
                                       Append(pth, k))]
                 IN IF \E k \in ks : IsRaise(sub[k]) THEN Raise
                    ELSE LET changed == {k \in ks : ~IsNull(sub[k].b) \/ ~IsNull(sub[k].a)}
                         IN IF changed = {} THEN NoChange
                            ELSE Pair(Dict([k \in changed |-> sub[k].b]),
                                      Dict([k \in changed |-> sub[k].a]))
    ELSE IF IsList(des)
    THEN LET cur_norm == normalize_for_compare(cur0, ordered_list_paths, pth)
             des_norm == normalize_for_compare(des, ordered_list_paths, pth)
         IN IF cur_norm # des_norm THEN Pair(cur0, des) ELSE NoChange
    ELSE IF cur0 # des THEN Pair(cur0, des) ELSE NoChange

\* a build_before_after that reports the current values as 'after' and the
\* desired values as 'before'
build_before_after_swapped(current, desired_subset, ordered_list_paths, path) ==
    LET r == _helper(current, desired_subset, ordered_list_paths, path)
    IN IF IsRaise(r) THEN Raise
       ELSE IF IsNull(r.b) /\ IsNull(r.a) THEN Null
       ELSE Dict([before |-> IF ~IsNull(r.a) THEN r.a ELSE EmptyDict,
                  after  |-> IF ~IsNull(r.b) THEN r.b ELSE EmptyDict])

\* lines 143-146: the structure built from the pair r that _helper returned
before_after(r) ==
    IF IsRaise(r) THEN Raise
    ELSE IF IsNull(r.b) /\ IsNull(r.a) THEN Null
    ELSE Dict([before |-> IF ~IsNull(r.b) THEN r.b ELSE EmptyDict,
               after  |-> IF ~IsNull(r.a) THEN r.a ELSE EmptyDict])

build_before_after(current, desired_subset, ordered_list_paths, path) ==
    before_after(_helper(current, desired_subset, ordered_list_paths, path))

\* ------------------------------------------------------------------------
\* Inputs of the model: records of the remote collection, desired objects
\* and selectors
\* ------------------------------------------------------------------------
RecA == Dict([name |-> Str("S1"), city |-> Str("X")])
RecB == Dict([name |-> Str("S2"), city |-> Str("X"), timezone |-> Str("T"),
              tags |-> List(<<Str("a"), Str("b")>>)])
RecC == Dict([name |-> Str("S1"), city |-> Str("Y"), geo |-> Dict([lat |-> Str("a"), lon |-> Str("X")])])
RecordPool == {RecA, RecB, RecC}

DesiredPool ==
    { Dict([name |-> Str("S1")]),
      Dict([name |-> Str("S1"), city |-> Str("Y"), timezone |-> Null]),
      Dict([name |-> Str("S2"), tags |-> List(<<Str("b"), Str("a")>>)]),
      Dict([name |-> Str("S1"), id |-> Num(1)]),
      Dict([name |-> Null, city |-> Str("X")]),
      Dict([name |-> Str(""), city |-> Str("X")]),
      Dict([city |-> Str("Y")]),
      Dict([name |-> Str("S1"), geo |-> Dict([lat |-> Str("b")])]),
      Dict([name |-> Str("S1"), city |-> Dict([lat |-> Str("a")])]) }

SelectorPool ==
    { Null,
      Dict([city |-> Str("X"), name |-> Null]),
      Dict([name |-> Str("S2")]) }

\* the remote system gives record number i of the initial collection the id i
WithId(rec, n) == Dict([k \in (DOMAIN rec.d) \cup {"id"} |->
                           IF k = "id" THEN Num(n) ELSE rec.d[k]])

SeqsUpTo(S, n) == UNION {[1..m -> S] : m \in 0..n}

\* the initial collections: every short collection over RecordPool, and one
\* collection of PreviewMax + 1 records of the same name and city
PreviewMax == 5
\* a record the list endpoint serves without an id
RecNoId == Dict([name |-> Str("S2"), city |-> Str("Y")])

InitRemotes ==
    {[i \in 1..Len(q) |-> WithId(q[i], i)] : q \in SeqsUpTo(RecordPool, MaxRemote)}
    \cup {[i \in 1..(PreviewMax + 1) |-> WithId(RecA, i)]}

\* the collections the site module is run against: those, and one whose only
\* record has no id
SiteRemotes == InitRemotes \cup {<<RecNoId>>}

\* ------------------------------------------------------------------------
\* State
\* ------------------------------------------------------------------------
VARIABLES
    remote,        \* the remote collection, in the order the list endpoint serves it
    nextId,        \* the id the remote system assigns to the next created record
    filterExact,   \* whether the list endpoint applies the name filter exactly
    interfered,    \* whether another client has changed the collection
    in_selector,   \* module parameters of the run
    in_object,
    in_state,
    check_mode,
    pc,            \* position of the run
    callNo,        \* 1 for the first call, 2 for the re-run with the same input
    selector,      \* pruned selector
    desired,       \* pruned desired object
    page_index,    \* iter_paged
    matches,       \* find_candidates
    current,       \* the record find_unique_or_fail returned, None when none
    ret,           \* the dict ensure_idempotent_state returned
    fail,          \* the arguments of module.fail_json
    calls,         \* the requests issued by the current call, in order
    fetched,       \* the records iter_paged has yielded to the current call
    remote0,       \* the remote collection when the current call started
    first,         \* outcome of the first call, kept for the re-run
    routine,       \* the routine that drives the pager, "" when none does
    last_page,     \* the records of the last page a pagination loop received
    all_len,       \* len(all_devices) / len(all_sites) of a pagination loop
    hosts,         \* the hosts the inventory plugin has added
    u_pc,          \* nce_utils functions applied to values: "in" before, "out" after
    u_op,          \* the function applied
    u_x,           \* its first argument (value, x, base, current)
    u_y,           \* its second argument (overlay, desired_subset)
    u_keys,        \* readonly_keys
    u_paths,       \* ordered_list_paths
    u_out,         \* what it returned
    runs,          \* two concurrent runs of ensure_idempotent_state, each with its locals
    events         \* what the two runs have done to the remote system, in order

\* the variables of the pagination loops and of the nce_utils functions
paging == <<routine, last_page, all_len, hosts>>
utils == <<u_pc, u_op, u_x, u_y, u_keys, u_paths, u_out>>
race == <<runs, events>>

vars == <<remote, nextId, filterExact, interfered, in_selector, in_object, in_state,
          check_mode, pc, callNo, selector, desired, page_index, matches, current,
          ret, fail, calls, fetched, remote0, first, paging, utils, race>>

inputs == <<in_selector, in_object, in_state, check_mode, filterExact>>
locals == <<selector, desired, page_index, matches, current>>

NoRet == [changed |-> FALSE, diff |-> Null, result |-> Null, current |-> Null]
NoFail == [msg |-> "", matches |-> <<>>, count |-> 0]
Ret(c, d, r, cur) == [changed |-> c, diff |-> d, result |-> r, current |-> cur]

\* a request: its verb, the id its path ends in (None for the collection), its
\* body, its query, and the status the remote system answered with
Request(o, i, p, q) == [op |-> o, id |-> i, payload |-> p, params |-> q, status |-> "ok"]
NotFound(req) == [req EXCEPT !.status = "not_found"]
IsMutation(c) == c.op \in {"create", "update", "delete"}
Mutations(cs) == SelectSeq(cs, IsMutation)

\* ------------------------------------------------------------------------
\* The remote system: a list endpoint with pageIndex/pageSize and an optional
\* name filter, and create/update/delete that store what they are sent
\* ------------------------------------------------------------------------
Min(a, b) == IF a < b THEN a ELSE b

RemoteList(params) ==
    LET HasName(r) == Get(r, "name") = params.d["name"]
        served == IF "name" \in DOMAIN params.d /\ filterExact
                  THEN SelectSeq(remote, HasName) ELSE remote
        lo == params.d["pageIndex"].n * params.d["pageSize"].n + 1
        hi == Min(Len(served), lo + params.d["pageSize"].n - 1)
    IN Dict([data |-> List(SubSeq(served, lo, hi))])

IndexOfId(coll, obj_id) ==
    IF \E i \in 1..Len(coll) : Get(coll[i], "id") = obj_id
    THEN CHOOSE i \in 1..Len(coll) : Get(coll[i], "id") = obj_id
    ELSE 0

RemoveAt(q, i) == [j \in 1..(Len(q) - 1) |-> IF j < i THEN q[j] ELSE q[j + 1]]

\* ------------------------------------------------------------------------
\* nce_http.iter_paged: one list request per page
\* ------------------------------------------------------------------------
extract_keys == <<"data", "list", "sites", "items">>

\* the records iter_paged takes out of one response
ExtractItems(res) ==
    LET hits == {i \in 1..Len(extract_keys) :
                    /\ extract_keys[i] \in DOMAIN res.d
                    /\ res.d[extract_keys[i]].t \in {"list", "dict"}}
        first_hit == CHOOSE i \in hits : \A j \in hits : i <= j
        items0 == IF IsDict(res) /\ hits # {} THEN res.d[extract_keys[first_hit]] ELSE res
        items1 == IF IsDict(items0)
                  THEN IF Truthy(Get(items0, "list")) THEN Get(items0, "list")
                       ELSE IF Truthy(Get(items0, "data")) THEN Get(items0, "data")
                       ELSE IF Truthy(Get(items0, "items")) THEN Get(items0, "items")
                       ELSE List(<<>>)
                  ELSE items0
    IN IF ~Truthy(items1) THEN <<>>
       ELSE IF ~IsList(items1) THEN <<items1>>
       ELSE items1.l

PageEndsAlways(page) == TRUE

PageEndsNever(page) == FALSE

\* lines 198 and 204 of iter_paged: an empty page and a page of fewer than
\* page_size records end the iteration
PageEnds(page) == Len(page) = 0 \/ Len(page) < PageSize

\* the query of the list request for page page_index
ListQuery(base_filters, pidx) ==
    Dict([k \in {"pageIndex", "pageSize"} \cup DOMAIN base_filters.d |->
             IF k = "pageIndex" THEN Num(pidx)
             ELSE IF k = "pageSize" THEN Num(PageSize)
             ELSE base_filters.d[k]])

\* ------------------------------------------------------------------------
\* nce_resource.py: Matcher
\* ------------------------------------------------------------------------
\* base_filters of find_candidates: the name, only when the selector is empty
BaseFilters(sel, name_fallback) ==
    IF ~Truthy(sel) /\ Truthy(name_fallback)
    THEN Dict([name |-> name_fallback])
    ELSE EmptyDict

MatchesNever(it, sel, name_fallback) == FALSE

MatchesNameToo(it, sel, name_fallback) ==
    /\ Truthy(name_fallback) /\ Get(it, "name") = name_fallback
    /\ Truthy(sel) => \A k \in DOMAIN sel.d : Get(it, k) = sel.d[k]

\* the match predicate of find_candidates
Matches(it, sel, name_fallback) ==
    IF Truthy(sel)
    THEN \A k \in DOMAIN sel.d : Get(it, k) = sel.d[k]
    ELSE Truthy(name_fallback) /\ Get(it, "name") = name_fallback

\* the preview find_unique_or_fail hands to fail_json
PreviewKeys == {"id", "name", "city", "timezone"}

PreviewUncapped(candidates) ==
    [i \in 1..Len(candidates) |->
        Dict([k \in PreviewKeys \cap DOMAIN candidates[i].d |-> candidates[i].d[k]])]

Preview(candidates) ==
    [i \in 1..Min(Len(candidates), PreviewMax) |->
        Dict([k \in PreviewKeys \cap DOMAIN candidates[i].d |-> candidates[i].d[k]])]

\* ------------------------------------------------------------------------
\* Request-building hooks, in the shape the site module uses
\* ------------------------------------------------------------------------
make_create_request(desired_obj) == Request("create", Null, desired_obj, Null)
make_update_request(obj_id, payload) == Request("update", obj_id, payload, Null)
make_delete_request(obj_id) == Request("delete", obj_id, Null, Null)

\* ------------------------------------------------------------------------
\* nce_resource.ensure_idempotent_state
\* ------------------------------------------------------------------------
id_key == "id"
DesiredName == Get(desired, "name")

NameMissingNoneOnly(name) == IsNull(name)

\* line 85: `if not name`
NameMissing(name) == ~Truthy(name)

NoDiffNever(diff_struct) == FALSE

\* line 111: `if not diff_struct`
NoDiff(diff_struct) == ~Truthy(diff_struct)

AbsentMissingReportsChange == [changed |-> TRUE, diff |-> Null, result |-> Null, current |-> Null]

\* line 92: the result of state=absent when no record was found
AbsentMissingResult == Ret(FALSE, Null, Null, Null)

CreateDiffEmptyAfter(desired_obj) == Dict([before |-> EmptyDict, after |-> EmptyDict])

\* lines 103 and 106: the diff of a creation
CreateDiff(desired_obj) == Dict([before |-> EmptyDict, after |-> desired_obj])

\* what the call does with the candidates once the scan is over, up to its
\* return, its failure or its next request
Outcome(candidates) ==
    IF Len(candidates) > 1
    THEN [pc |-> "failed", current |-> Null, ret |-> NoRet,
          fail |-> [msg |-> "ambiguous", matches |-> Preview(candidates),
                    count |-> Len(candidates)]]
    ELSE LET cur == IF Len(candidates) = 0 THEN Null ELSE candidates[1]
             current_stripped == strip_readonly(cur, READONLY_KEYS)
             diff_struct == build_before_after(current_stripped, desired, {}, <<>>)
             Done(r) == [pc |-> "done", current |-> cur, ret |-> r, fail |-> NoFail]
             Goto(l) == [pc |-> l, current |-> cur, ret |-> NoRet, fail |-> NoFail]
         IN IF in_state = "absent"
            THEN IF ~Truthy(cur) THEN Done(AbsentMissingResult)
                 ELSE IF check_mode THEN Done(Ret(TRUE, Null, current_stripped, cur))
                 ELSE Goto("delete")
            ELSE IF ~Truthy(cur)
            THEN IF check_mode
                 THEN Done(Ret(TRUE, CreateDiff(desired), Null, Null))
                 ELSE Goto("create")
            ELSE IF IsRaise(diff_struct) THEN Goto("raised")
            ELSE IF NoDiff(diff_struct)
            THEN Done(Ret(FALSE, Null, current_stripped, cur))
            ELSE IF check_mode THEN Done(Ret(TRUE, diff_struct, current_stripped, cur))
            ELSE Goto("update")

\* lines 82-86: prune the inputs, require object.name
Call ==
    /\ pc = "start"
    /\ selector' = prune_unset(OrEmptyDict(in_selector))
    /\ desired' = prune_unset(OrEmptyDict(in_object))
    /\ IF NameMissing(Get(desired', "name"))
       THEN /\ pc' = "failed"
            /\ fail' = [msg |-> "name_required", matches |-> <<>>, count |-> 0]
       ELSE /\ pc' = "scan"
            /\ fail' = NoFail
    /\ UNCHANGED <<remote, nextId, interfered, inputs, callNo, page_index, matches,
                   current, ret, calls, fetched, remote0, first>>
    /\ UNCHANGED <<paging, utils, race>>

\* line 88: find_unique_or_fail -> find_candidates -> iter_paged, one page
FetchPage ==
    /\ pc = "scan"
    /\ LET query == ListQuery(BaseFilters(selector, DesiredName), page_index)
           items == ExtractItems(RemoteList(query))
           Hit(it) == Matches(it, selector, DesiredName)
           found == matches \o SelectSeq(items, Hit)
           more == ~PageEnds(items) /\ page_index + 1 < MaxPages
       IN /\ calls' = Append(calls, Request("list", Null, Null, query))
          /\ matches' = found
          /\ fetched' = fetched \o items
          /\ IF more
             THEN /\ page_index' = page_index + 1
                  /\ UNCHANGED <<pc, current, ret, fail>>
             ELSE \E o \in {Outcome(found)} :
                  /\ page_index' = page_index
                  /\ pc' = o.pc
                  /\ current' = o.current
                  /\ ret' = o.ret
                  /\ fail' = o.fail
    /\ UNCHANGED <<remote, nextId, interfered, inputs, callNo, selector, desired,
                   remote0, first>>
    /\ UNCHANGED <<paging, utils, race>>

\* lines 95-98: delete the record found
Delete ==
    /\ pc = "delete"
    /\ LET obj_id == Get(current, id_key)
           req == make_delete_request(obj_id)
           i == IF IsNull(req.id) THEN 0 ELSE IndexOfId(remote, req.id)
       IN /\ calls' = Append(calls, IF i = 0 THEN NotFound(req) ELSE req)
          /\ IF i = 0
             THEN /\ pc' = "failed"
                  /\ fail' = [msg |-> "http_404", matches |-> <<>>, count |-> 0]
                  /\ UNCHANGED <<remote, ret>>
             ELSE /\ pc' = "done"
                  /\ remote' = RemoveAt(remote, i)
                  /\ ret' = Ret(TRUE, Null, Null, current)
                  /\ fail' = NoFail
    /\ UNCHANGED <<nextId, interfered, inputs, callNo, locals, fetched, remote0, first>>
    /\ UNCHANGED <<paging, utils, race>>

\* lines 104-106: create from the desired object
Create ==
    /\ pc = "create"
    /\ LET req == make_create_request(desired)
           created == WithId(req.payload, nextId)
       IN /\ calls' = Append(calls, req)
          /\ remote' = Append(remote, created)
          /\ nextId' = nextId + 1
          /\ ret' = Ret(TRUE, CreateDiff(desired),
                        strip_readonly(created, READONLY_KEYS), Null)
          /\ pc' = "done"
    /\ UNCHANGED <<interfered, inputs, callNo, locals, fail, fetched, remote0, first>>
    /\ UNCHANGED <<paging, utils, race>>

\* lines 117-121: update with the merged payload
Update ==
    /\ pc = "update"
    /\ LET current_stripped == strip_readonly(current, READONLY_KEYS)
           diff_struct == build_before_after(current_stripped, desired, {}, <<>>)
           payload == deep_merge(current_stripped, desired)
           obj_id == Get(current, id_key)
           req == make_update_request(obj_id, payload)
           i == IF IsNull(req.id) THEN 0 ELSE IndexOfId(remote, req.id)
           updated == WithId(req.payload, obj_id.n)
       IN /\ calls' = Append(calls, IF i = 0 THEN NotFound(req) ELSE req)
          /\ IF i = 0
             THEN /\ pc' = "failed"
                  /\ fail' = [msg |-> "http_404", matches |-> <<>>, count |-> 0]
                  /\ UNCHANGED <<remote, ret>>
             ELSE /\ pc' = "done"
                  /\ remote' = [remote EXCEPT ![i] = updated]
                  /\ ret' = Ret(TRUE, diff_struct, strip_readonly(updated, READONLY_KEYS),
                                current)
                  /\ fail' = NoFail
    /\ UNCHANGED <<nextId, interfered, inputs, callNo, locals, fetched, remote0, first>>
    /\ UNCHANGED <<paging, utils, race>>

\* the same task run again with the same input
Rerun ==
    /\ pc \in {"done", "failed", "raised"}
    /\ callNo = 1
    /\ callNo' = 2
    /\ first' = [pc |-> pc, ret |-> ret, calls |-> calls]
    /\ pc' = "start"
    /\ selector' = Null
    /\ desired' = Null
    /\ page_index' = 0
    /\ matches' = <<>>
    /\ current' = Null
    /\ ret' = NoRet
    /\ fail' = NoFail
    /\ calls' = <<>>
    /\ fetched' = <<>>
    /\ remote0' = remote
    /\ UNCHANGED <<remote, nextId, interfered, inputs>>
    /\ UNCHANGED <<paging, utils, race>>

\* another client deletes a record while the call is between two requests
OtherClientDelete ==
    /\ pc \in {"scan", "create", "update", "delete"}
    /\ ~interfered
    /\ \E i \in 1..Len(remote) : remote' = RemoveAt(remote, i)
    /\ interfered' = TRUE
    /\ UNCHANGED <<nextId, inputs, pc, callNo, locals, ret, fail, calls, fetched,
                   remote0, first>>
    /\ UNCHANGED <<paging, utils, race>>

NoFirst == [pc |-> "none", ret |-> NoRet, calls |-> <<>>]

InitRun ==
    /\ pc = "start"
    /\ callNo = 1
    /\ selector = Null
    /\ desired = Null
    /\ page_index = 0
    /\ matches = <<>>
    /\ current = Null
    /\ ret = NoRet
    /\ fail = NoFail
    /\ calls = <<>>
    /\ fetched = <<>>
    /\ remote0 = remote
    /\ first = NoFirst
    /\ interfered = FALSE

\* no pagination loop runs and no nce_utils function is applied on its own
PagingIdle == routine = "" /\ last_page = <<>> /\ all_len = 0 /\ hosts = {}
UtilsIdle ==
    /\ u_pc = "idle" /\ u_op = "" /\ u_x = Null /\ u_y = Null
    /\ u_keys = {} /\ u_paths = {} /\ u_out = Null
RaceIdle == runs = <<>> /\ events = <<>>

InitOver(remotes) ==
    /\ remote \in remotes
    /\ nextId = Len(remote) + 1
    /\ filterExact \in BOOLEAN
    /\ in_selector \in SelectorPool
    /\ in_object \in DesiredPool
    /\ in_state \in {"present", "absent"}
    /\ check_mode \in BOOLEAN
    /\ InitRun
    /\ PagingIdle
    /\ UtilsIdle
    /\ RaceIdle

Init == InitOver(InitRemotes)

Next ==
    \/ Call
    \/ FetchPage
    \/ Delete
    \/ Create
    \/ Update
    \/ Rerun
    \/ OtherClientDelete

Spec == Init /\ [][Next]_vars

\* ------------------------------------------------------------------------
\* Properties of ensure_idempotent_state (specification Spec)
\* ------------------------------------------------------------------------
Terminal == pc \in {"done", "failed", "raised"}
PastScan == pc \notin {"start", "scan"}
NumMutations == Len(Mutations(calls))

\* the elements of a sequence with their multiplicities
CountIn(q, x) == Cardinality({i \in 1..Len(q) : q[i] = x})
SameElements(p, q) ==
    /\ Len(p) = Len(q)
    /\ \A i \in 1..Len(p) : CountIn(p, p[i]) = CountIn(q, p[i])

\* R satisfies D: every path of D has an equal value in R
RECURSIVE Satisfies(_, _)
Satisfies(R, D) ==
    IF IsDict(D)
    THEN IsDict(R) /\ \A k \in DOMAIN D.d : k \in DOMAIN R.d /\ Satisfies(R.d[k], D.d[k])
    ELSE IF IsList(D)
    THEN IsList(R) /\ SameElements(R.l, D.l)
    ELSE R = D

\* C1: when the record R the call found already satisfies the desired object D,
\* subset_diff(R, D) is None and the call with state=present reports
\* changed=false and issues no create, update or delete
C1_SatisfiedMeansUnchanged ==
    (Terminal /\ in_state = "present" /\ ~IsNull(current) /\ Satisfies(current, desired))
        => /\ IsNull(subset_diff(current, desired, {}, <<>>))
           /\ pc = "done"
           /\ ~ret.changed
           /\ NumMutations = 0

\* C2: after a first non-dry-run call with state=present that created or
\* updated, and with no other client at work, the second call with the same
\* input reports changed=false and issues no create, update or delete
C2_RerunUnchanged ==
    (/\ callNo = 2 /\ Terminal
     /\ in_state = "present" /\ ~check_mode /\ ~interfered
     /\ first.pc = "done" /\ Len(Mutations(first.calls)) = 1)
        => /\ pc = "done"
           /\ ~ret.changed
           /\ NumMutations = 0

\* a change is required: a record to delete, a record to create, or a record
\* that differs from the desired object on one of its paths
ChangeRequired ==
    IF in_state = "absent" THEN ~IsNull(current)
    ELSE \/ IsNull(current)
         \/ ~IsNull(subset_diff(strip_readonly(current, READONLY_KEYS), desired, {}, <<>>))

\* the call ended in an error before it could decide on a change
FatalBeforeChange == fail.msg \in {"name_required", "ambiguous"} \/ pc = "raised"

\* C3: a call issues exactly one mutating request when it is not a dry run
\* and a change is required, and none in every other case
C3_OneMutationWhenRequired ==
    /\ NumMutations <= 1
    /\ ~Terminal => NumMutations = 0
    /\ Terminal =>
          NumMutations = IF ~check_mode /\ ~FatalBeforeChange /\ ChangeRequired
                         THEN 1 ELSE 0

C3_Witness ==
    /\ pc = "done" /\ ~check_mode /\ NumMutations = 1
    /\ calls[Len(calls)].op = "update"

\* the record projected to the fields id, name, city, timezone
Projected(r) ==
    Dict([k \in {"id", "name", "city", "timezone"} \cap DOMAIN r.d |-> r.d[k]])

\* C4: when k > 1 records match, the call ends in an ambiguity error with
\* count = k and a preview of the first min(k, 5) records projected to id,
\* name, city, timezone; no record is picked and nothing is mutated
C4_AmbiguityIsFatal ==
    (PastScan /\ Len(matches) > 1)
        => /\ pc = "failed"
           /\ fail.msg = "ambiguous"
           /\ fail.count = Len(matches)
           /\ Len(fail.matches) = (IF Len(matches) < 5 THEN Len(matches) ELSE 5)
           /\ \A i \in 1..Len(fail.matches) : fail.matches[i] = Projected(matches[i])
           /\ IsNull(current)
           /\ ret = NoRet
           /\ NumMutations = 0

C4_Witness ==
    /\ pc = "failed" /\ fail.msg = "ambiguous"
    /\ Len(matches) = 6 /\ fail.count = 6 /\ Len(fail.matches) = 5

\* the desired object given to the call has no name: missing, null or empty
InputHasNoName ==
    \/ IsNull(in_object)
    \/ "name" \notin DOMAIN in_object.d
    \/ in_object.d["name"] \in {Null, Str("")}

\* C5: without a non-empty object.name the call fails, for state=present and
\* state=absent alike, whatever the selector, before any request is issued
C5_NameRequiredBeforeAnyRequest ==
    (pc # "start" /\ InputHasNoName)
        => /\ pc = "failed"
           /\ fail.msg = "name_required"
           /\ calls = <<>>

C5_Witness ==
    /\ pc = "failed" /\ fail.msg = "name_required"
    /\ in_state = "absent" /\ Truthy(selector) /\ Len(remote) > 0

\* the match criterion: the selector's pairs when the selector is non-empty,
\* the name otherwise
Selected(r) ==
    IF IsDict(selector) /\ DOMAIN selector.d # {}
    THEN \A k \in DOMAIN selector.d : k \in DOMAIN r.d /\ r.d[k] = selector.d[k]
    ELSE "name" \in DOMAIN r.d /\ r.d["name"] = DesiredName

\* C7: with a non-empty selector the name is neither sent as a filter nor
\* used to match, and a record matches iff it has every pair of the selector;
\* with an empty selector a record matches iff its name is the desired name
C7_MatchingPrecedence ==
    /\ \A i \in 1..Len(calls) :
          (calls[i].op = "list" /\ Truthy(selector))
              => "name" \notin DOMAIN calls[i].params.d
    /\ pc # "start" => matches = SelectSeq(fetched, Selected)

C7_Witness ==
    /\ PastScan /\ Truthy(selector)
    /\ \E i \in 1..Len(fetched) :
          Get(fetched[i], "name") = DesiredName /\ ~Selected(fetched[i])
    /\ \E i \in 1..Len(matches) : Get(matches[i], "name") # DesiredName

\* C8: state=absent with no record found issues no mutating request, leaves
\* the collection as it was and returns changed=false with diff, result and
\* current None, in a dry run or not
C8_DeleteOfMissingIsNoOp ==
    (in_state = "absent" /\ pc = "done" /\ IsNull(current))
        => /\ ret = [changed |-> FALSE, diff |-> Null, result |-> Null, current |-> Null]
           /\ NumMutations = 0
           /\ ~interfered => remote = remote0

C8_Witness ==
    /\ in_state = "absent" /\ pc = "done" /\ IsNull(current)
    /\ ~check_mode /\ Len(remote) > 0 /\ Len(calls) > 0

\* C9: a delete request that the remote system answers with not-found does
\* not fail the call, which reports changed=false
C9_NotFoundOnDeleteIsNoError ==
    \A i \in 1..Len(calls) :
        (calls[i].op = "delete" /\ calls[i].status = "not_found")
            => pc = "done" /\ ~ret.changed

\* C10: state=present with no matching record in the collection: one create
\* request carrying the pruned desired object and no other mutation, or no
\* request at all in a dry run; changed=true and diff = {before: {}, after:
\* desired} in both cases
C10_CreateWhenMissing ==
    (/\ in_state = "present" /\ pc = "done"
     /\ \A i \in 1..Len(remote0) : ~Selected(remote0[i]))
        => /\ ret.changed
           /\ ret.diff = Dict([before |-> EmptyDict, after |-> prune_unset(in_object)])
           /\ IF check_mode
              THEN NumMutations = 0
              ELSE /\ NumMutations = 1
                   /\ Mutations(calls)[1].op = "create"
                   /\ Mutations(calls)[1].payload = prune_unset(in_object)
                   /\ IsNull(Mutations(calls)[1].id)

C10_Witness ==
    /\ in_state = "present" /\ pc = "done" /\ ~check_mode
    /\ Len(remote0) > 0
    /\ \A i \in 1..Len(remote0) : ~Selected(remote0[i])
    /\ NumMutations = 1 /\ Mutations(calls)[1].op = "create"
    /\ remote = Append(remote0, remote[Len(remote)])

\* some mapping inside x, at any depth, has a key of keyset
RECURSIVE HasKeyIn(_, _)
HasKeyIn(x, keyset) ==
    IF IsDict(x)
    THEN \/ (DOMAIN x.d) \cap keyset # {}
         \/ \E k \in DOMAIN x.d : HasKeyIn(x.d[k], keyset)
    ELSE IF IsList(x)
    THEN \E i \in 1..Len(x.l) : HasKeyIn(x.l[i], keyset)
    ELSE FALSE

\* C11: the payload of every create and update request holds no read-only
\* key (id, uuid, createTime, create_time, createdAt, updateTime, update_time,
\* updatedAt) at any depth, whatever the current record and the desired object
C11_NoReadonlyKeyInPayload ==
    \A i \in 1..Len(calls) :
        calls[i].op \in {"create", "update"}
            => ~HasKeyIn(calls[i].payload,
                         {"id", "uuid", "createTime", "create_time", "createdAt",
                          "updateTime", "update_time", "updatedAt"})

\* P is D merged into C: a mapping of D is merged key by key into a mapping
\* of C, anything else of D replaces what C holds
RECURSIVE IsMergeOf(_, _, _)
IsMergeOf(P, C, D) ==
    IF IsDict(C) /\ IsDict(D)
    THEN /\ IsDict(P)
         /\ DOMAIN P.d = (DOMAIN C.d) \cup (DOMAIN D.d)
         /\ \A k \in DOMAIN P.d :
               IF k \notin DOMAIN D.d THEN P.d[k] = C.d[k]
               ELSE IF k \notin DOMAIN C.d THEN P.d[k] = D.d[k]
               ELSE IF IsNull(C.d[k]) THEN P.d[k] = D.d[k]
               ELSE IsMergeOf(P.d[k], C.d[k], D.d[k])
    ELSE P = D

\* C12: the payload of an update request is the desired object merged into
\* the current record without its read-only keys: a path of desired carries
\* desired's value, a path only the current record has keeps its value,
\* nested mappings are merged key by key, a list or scalar of desired
\* replaces the current value
C12_UpdatePayloadIsDeepMerge ==
    \A i \in 1..Len(calls) :
        calls[i].op = "update"
            => IsMergeOf(calls[i].payload, strip_readonly(current, READONLY_KEYS), desired)

C12_Witness ==
    /\ pc = "done" /\ NumMutations = 1 /\ calls[Len(calls)].op = "update"
    /\ LET payload == calls[Len(calls)].payload
       IN /\ Get(desired, "geo") = Dict([lat |-> Str("b")])
          /\ Get(current, "geo") = Dict([lat |-> Str("a"), lon |-> Str("X")])
          /\ Get(payload, "geo") = Dict([lat |-> Str("b"), lon |-> Str("X")])
          /\ Get(payload, "city") = Str("Y")
          /\ "city" \notin DOMAIN desired.d

\* C21: over a collection that no other client changes and that holds fewer
\* than max_pages * page_size records, find_candidates returns exactly the
\* records of the collection that match, each once and in collection order,
\* also when the number of records is a multiple of page_size
C21_AllMatchesComplete ==
    (/\ PastScan /\ fail.msg # "name_required"
     /\ ~interfered
     /\ Len(remote0) < MaxPages * PageSize)
        => matches = SelectSeq(remote0, Selected)

C21_Witness ==
    /\ PastScan /\ ~interfered /\ callNo = 1
    /\ Len(remote0) > PageSize /\ Len(remote0) % PageSize = 0
    /\ Len(remote0) < MaxPages * PageSize
    /\ Len(matches) = Len(remote0)
    /\ Len(calls) > Len(remote0) \div PageSize

\* ------------------------------------------------------------------------
\* plugins/modules/nce_site.py: the site module with its embedded helpers
\* ------------------------------------------------------------------------
\* _normalize_types returns a copy of its argument
RECURSIVE _normalize_types(_)
_normalize_types(x) ==
    IF IsList(x) THEN List([i \in 1..Len(x.l) |-> _normalize_types(x.l[i])])
    ELSE IF IsDict(x) THEN Dict([k \in DOMAIN x.d |-> _normalize_types(x.d[k])])
    ELSE x

\* the subset_diff of nce_site.py
RECURSIVE site_subset_diff(_, _)
site_subset_diff(cur0, desired_subset) ==
    IF IsDict(desired_subset)
    THEN LET cur == OrEmptyDict(cur0)
             ks == DOMAIN desired_subset.d
         IN IF ks # {} /\ ~IsDict(cur) THEN Raise
            ELSE LET sub == [k \in ks |-> site_subset_diff(Get(cur, k), desired_subset.d[k])]
                     diff == {k \in ks : ~IsNull(sub[k])}
                 IN IF \E k \in ks : IsRaise(sub[k]) THEN Raise
                    ELSE IF diff # {} THEN Dict([k \in diff |-> sub[k]])
                    ELSE Null
    ELSE IF _normalize_types(cur0) # _normalize_types(desired_subset)
    THEN desired_subset ELSE Null

\* the records _iter_sites takes out of one response
SiteExtractItems(res) ==
    LET items0 == IF IsDict(res) /\ Truthy(Get(res, "data")) THEN Get(res, "data")
                  ELSE IF IsDict(res) /\ Truthy(Get(res, "list")) THEN Get(res, "list")
                  ELSE IF IsDict(res) /\ Truthy(Get(res, "sites")) THEN Get(res, "sites")
                  ELSE res
        items1 == IF IsDict(items0)
                  THEN IF Truthy(Get(items0, "list")) THEN Get(items0, "list")
                       ELSE IF Truthy(Get(items0, "data")) THEN Get(items0, "data")
                       ELSE IF Truthy(Get(items0, "items")) THEN Get(items0, "items")
                       ELSE List(<<>>)
                  ELSE items0
    IN IF ~Truthy(items1) THEN <<>>
       ELSE IF ~IsList(items1) THEN <<items1>>
       ELSE items1.l

NeedsNameAlways(name, sel) == ~Truthy(name)

\* line 394: `if not name and not selector`
NeedsSelectorOrName(name, sel) == ~Truthy(name) /\ ~Truthy(sel)

\* run_module from the return of _find_site up to its exit, its failure or
\* its next request
SiteOutcome(cur) ==
    LET current_stripped == strip_readonly(cur, READONLY_KEYS)
        diff_subset == site_subset_diff(current_stripped, desired)
        Exit(r) == [pc |-> "done", ret |-> r, fail |-> NoFail]
        Goto(l) == [pc |-> l, ret |-> NoRet, fail |-> NoFail]
    IN IF in_state = "absent"
       THEN IF ~Truthy(cur) THEN Exit(Ret(FALSE, Null, Null, Null))
            ELSE IF check_mode THEN Exit(Ret(TRUE, Null, current_stripped, Null))
            ELSE Goto("delete")
       ELSE IF ~Truthy(cur)
       THEN IF ~Truthy(DesiredName)
            THEN [pc |-> "failed", ret |-> NoRet,
                  fail |-> [msg |-> "name_required_on_creation", matches |-> <<>>,
                            count |-> 0]]
            ELSE IF check_mode
            THEN Exit(Ret(TRUE, Dict([before |-> EmptyDict, after |-> desired]), Null, Null))
            ELSE Goto("create")
       ELSE IF IsRaise(diff_subset) THEN Goto("raised")
       ELSE IF ~Truthy(diff_subset) THEN Exit(Ret(FALSE, Null, current_stripped, Null))
       ELSE IF check_mode THEN Exit(Ret(TRUE, diff_subset, current_stripped, Null))
       ELSE Goto("update")

\* lines 369-395: prune the inputs; state=present needs a selector or a name
SiteCall ==
    /\ pc = "start"
    /\ selector' = prune_unset(OrEmptyDict(in_selector))
    /\ desired' = prune_unset(OrEmptyDict(in_object))
    /\ IF in_state = "present" /\ NeedsSelectorOrName(Get(desired', "name"), selector')
       THEN /\ pc' = "failed"
            /\ fail' = [msg |-> "selector_or_name_required", matches |-> <<>>, count |-> 0]
       ELSE /\ pc' = "scan"
            /\ fail' = NoFail
    /\ UNCHANGED <<remote, nextId, interfered, inputs, callNo, page_index, matches,
                   current, ret, calls, fetched, remote0, first>>
    /\ UNCHANGED <<paging, utils, race>>

\* _find_site over _iter_sites, one page: the first match ends the iteration
SiteFetchPage ==
    /\ pc = "scan"
    /\ LET query == ListQuery(BaseFilters(selector, DesiredName), page_index)
           items == SiteExtractItems(RemoteList(query))
           hits == {i \in 1..Len(items) : Matches(items[i], selector, DesiredName)}
           hit == CHOOSE i \in hits : \A j \in hits : i <= j
           more == ~PageEnds(items) /\ page_index + 1 < MaxPages
           cur == IF hits # {} THEN items[hit] ELSE Null
           o == SiteOutcome(cur)
       IN /\ calls' = Append(calls, Request("list", Null, Null, query))
          /\ IF hits = {} /\ more
             THEN /\ page_index' = page_index + 1
                  /\ fetched' = fetched \o items
                  /\ UNCHANGED <<pc, current, matches, ret, fail>>
             ELSE /\ page_index' = page_index
                  /\ fetched' = fetched \o (IF hits # {} THEN SubSeq(items, 1, hit) ELSE items)
                  /\ matches' = IF hits # {} THEN <<cur>> ELSE <<>>
                  /\ current' = cur
                  /\ pc' = o.pc
                  /\ ret' = o.ret
                  /\ fail' = o.fail
    /\ UNCHANGED <<remote, nextId, interfered, inputs, callNo, selector, desired,
                   remote0, first>>
    /\ UNCHANGED <<paging, utils, race>>

\* lines 386-391: DELETE on the site's path, a 404 answer is swallowed by _delete
SiteDelete ==
    /\ pc = "delete"
    /\ LET site_id == Get(current, "id")
           req == Request("delete", IF Truthy(site_id) THEN site_id ELSE Null, Null, Null)
           i == IF Truthy(site_id) THEN IndexOfId(remote, site_id) ELSE 0
       IN /\ calls' = Append(calls, IF i = 0 THEN NotFound(req) ELSE req)
          /\ remote' = IF i = 0 THEN remote ELSE RemoveAt(remote, i)
          /\ ret' = Ret(TRUE, Null, Null, Null)
          /\ pc' = "done"
    /\ UNCHANGED <<nextId, interfered, inputs, callNo, locals, fail, fetched, remote0,
                   first>>
    /\ UNCHANGED <<paging, utils, race>>

\* lines 405-406: POST the desired object
SiteCreate ==
    /\ pc = "create"
    /\ LET req == Request("create", Null, desired, Null)
           created == WithId(req.payload, nextId)
       IN /\ calls' = Append(calls, req)
          /\ remote' = Append(remote, created)
          /\ nextId' = nextId + 1
          /\ ret' = Ret(TRUE, Null, strip_readonly(created, READONLY_KEYS), Null)
          /\ pc' = "done"
    /\ UNCHANGED <<interfered, inputs, callNo, locals, fail, fetched, remote0, first>>
    /\ UNCHANGED <<paging, utils, race>>

\* lines 419-428: PUT the merged payload on the site's path
SiteUpdate ==
    /\ pc = "update"
    /\ LET current_stripped == strip_readonly(current, READONLY_KEYS)
           diff_subset == site_subset_diff(current_stripped, desired)
           payload == deep_merge(current_stripped, desired)
           site_id == Get(current, "id")
           req == Request("update", IF Truthy(site_id) THEN site_id ELSE Null, payload, Null)
           i == IF Truthy(site_id) THEN IndexOfId(remote, site_id) ELSE 0
           updated == WithId(req.payload, site_id.n)
       IN /\ calls' = Append(calls, IF i = 0 THEN NotFound(req) ELSE req)
          /\ IF i = 0
             THEN /\ pc' = "failed"
                  /\ fail' = [msg |-> "http_404", matches |-> <<>>, count |-> 0]
                  /\ UNCHANGED <<remote, ret>>
             ELSE /\ pc' = "done"
                  /\ remote' = [remote EXCEPT ![i] = updated]
                  /\ ret' = Ret(TRUE, diff_subset, strip_readonly(updated, READONLY_KEYS),
                                Null)
                  /\ fail' = NoFail
    /\ UNCHANGED <<nextId, interfered, inputs, callNo, locals, fetched, remote0, first>>
    /\ UNCHANGED <<paging, utils, race>>

NextSite ==
    \/ SiteCall
    \/ SiteFetchPage
    \/ SiteDelete
    \/ SiteCreate
    \/ SiteUpdate
    \/ OtherClientDelete

InitSite == InitOver(SiteRemotes)

SpecSite == InitSite /\ [][NextSite]_vars

\* ------------------------------------------------------------------------
\* Properties of the site module (specification SpecSite)
\* ------------------------------------------------------------------------
SiteInputError == fail.msg \in {"selector_or_name_required", "name_required_on_creation"}

\* C6 as stated: every input error of the site module is reported before any
\* request is issued, and a missing object.name fails every operation,
\* state=absent included
C6_SiteInputErrorsBeforeAnyRequest ==
    /\ SiteInputError => calls = <<>>
    /\ (pc # "start" /\ InputHasNoName) => (pc = "failed" /\ SiteInputError)

\* C6 amended: state=present with neither selector nor name fails before any
\* request; a missing name when a creation is needed fails after the list
\* requests of the lookup and before any mutating request; a missing name
\* fails nothing else: not state=absent, not a state=present run that finds
\* its record by the selector
C6_SiteInputErrors ==
    /\ fail.msg = "selector_or_name_required"
          <=> (pc # "start" /\ in_state = "present" /\ InputHasNoName /\ ~Truthy(selector))
    /\ fail.msg = "selector_or_name_required" => calls = <<>>
    /\ fail.msg = "name_required_on_creation"
          <=> (/\ PastScan /\ in_state = "present" /\ InputHasNoName /\ Truthy(selector)
               /\ IsNull(current))
    /\ fail.msg = "name_required_on_creation"
          => /\ Len(calls) >= 1
             /\ \A i \in 1..Len(calls) : calls[i].op = "list"
    /\ in_state = "absent" => ~SiteInputError

C6_Witness ==
    /\ pc = "failed" /\ fail.msg = "name_required_on_creation"
    /\ InputHasNoName /\ Len(calls) >= 1 /\ Len(remote) > 0

\* C24: every update or delete request of a run of nce_site is addressed to
\* the id of the record the lookup returned, never to the bare collection or
\* to a missing id
C24_MutationsAddressTheMatch ==
    \A i \in 1..Len(calls) :
        calls[i].op \in {"update", "delete"}
            => /\ ~IsNull(calls[i].id)
               /\ calls[i].id = Get(current, "id")

\* ------------------------------------------------------------------------
\* nce_utils.py on its own: each function applied to values of a pool
\* ------------------------------------------------------------------------
UValues ==
    { Null,
      EmptyDict,
      Dict([a |-> Num(1), b |-> Null, c |-> Dict([d |-> Null])]),
      Dict([id |-> Str("X"), name |-> Str("Y")]),
      Dict([name |-> Str("Y")]),
      Dict([tags |-> List(<<Str("b"), Str("a")>>)]),
      Dict([tags |-> List(<<Str("a"), Str("b")>>)]),
      Dict([tags |-> List(<<Str("a"), Str("a"), Str("b")>>)]),
      Dict([tags |-> List(<<Str("a"), Str("b"), Str("b")>>)]),
      Dict([tags |-> List(<<Dict([name |-> Str("a"), id |-> Num(1)]),
                            Dict([name |-> Str("b")])>>)]),
      Dict([tags |-> List(<<Dict([name |-> Str("b")]), Dict([name |-> Str("a")])>>)]),
      Dict([tags |-> List(<<Dict([name |-> Str("a")]), Dict([name |-> Str("b")])>>)]),
      Dict([tags |-> List(<<Null, Dict([city |-> Null])>>), geo |-> EmptyDict]),
      Dict([name |-> Str("Y"),
            geo |-> Dict([lat |-> Str("a"), lon |-> Null, id |-> Num(1)])]),
      Dict([geo |-> Dict([lat |-> Str("a")])]),
      Dict([geo |-> Dict([lat |-> Str("a"), lon |-> Str("X")]), city |-> Str("Y")]),
      Dict([geo |-> Str("a")]),
      Dict([geo |-> Dict([tags |-> List(<<Str("a"), Str("b")>>)])]),
      Dict([geo |-> Dict([tags |-> List(<<Str("b"), Str("a")>>)])]) }

\* the read-only key sets and the ordered-list path sets handed to the functions
KeySets == {READONLY_KEYS, {"id"}}
PathSets == {{}, {"tags"}, {"geo.tags"}}

\* the variables of a reconciliation run
run == <<remote, nextId, filterExact, interfered, in_selector, in_object, in_state,
         check_mode, pc, callNo, selector, desired, page_index, matches, current,
         ret, fail, calls, fetched, remote0, first>>

\* no reconciliation run is under way
RunIdle ==
    /\ remote = <<>>
    /\ nextId = 1
    /\ filterExact = FALSE
    /\ in_selector = Null
    /\ in_object = Null
    /\ in_state = "present"
    /\ check_mode = FALSE
    /\ InitRun

InitUtils ==
    /\ RunIdle
    /\ PagingIdle
    /\ RaceIdle
    /\ u_pc = "in"
    /\ u_op = ""
    /\ u_x \in UValues
    /\ u_y \in UValues
    /\ u_keys = {}
    /\ u_paths = {}
    /\ u_out = Null

ApplyPruneUnset ==
    /\ u_pc = "in"
    /\ u_op' = "prune_unset"
    /\ u_out' = prune_unset(u_x)
    /\ u_pc' = "out"
    /\ UNCHANGED <<u_x, u_y, u_keys, u_paths, run, paging, race>>

ApplyStripReadonly ==
    /\ u_pc = "in"
    /\ u_op' = "strip_readonly"
    /\ \E ks \in KeySets :
          /\ u_keys' = ks
          /\ u_out' = strip_readonly(u_x, ks)
    /\ u_pc' = "out"
    /\ UNCHANGED <<u_x, u_y, u_paths, run, paging, race>>

ApplyDeepMerge ==
    /\ u_pc = "in"
    /\ u_op' = "deep_merge"
    /\ u_out' = deep_merge(u_x, u_y)
    /\ u_pc' = "out"
    /\ UNCHANGED <<u_x, u_y, u_keys, u_paths, run, paging, race>>

ApplySubsetDiff ==
    /\ u_pc = "in"
    /\ u_op' = "subset_diff"
    /\ \E ps \in PathSets :
          /\ u_paths' = ps
          /\ u_out' = subset_diff(u_x, u_y, ps, <<>>)
    /\ u_pc' = "out"
    /\ UNCHANGED <<u_x, u_y, u_keys, run, paging, race>>

ApplyBuildBeforeAfter ==
    /\ u_pc = "in"
    /\ u_op' = "build_before_after"
    /\ \E ps \in PathSets :
          /\ u_paths' = ps
          /\ u_out' = build_before_after(u_x, u_y, ps, <<>>)
    /\ u_pc' = "out"
    /\ UNCHANGED <<u_x, u_y, u_keys, run, paging, race>>

\* the subset_diff of nce_site.py applied to the same values
ApplySiteSubsetDiff ==
    /\ u_pc = "in"
    /\ u_op' = "site_subset_diff"
    /\ u_out' = site_subset_diff(u_x, u_y)
    /\ u_pc' = "out"
    /\ UNCHANGED <<u_x, u_y, u_keys, u_paths, run, paging, race>>

\* lines 83, 108 and 117 of ensure_idempotent_state: the update payload for
\* the current record and the pruned desired object
update_payload(current_rec, desired_object, readonly_keys) ==
    deep_merge(strip_readonly(current_rec, readonly_keys),
               prune_unset(OrEmptyDict(desired_object)))

ApplyUpdatePayload ==
    /\ u_pc = "in"
    /\ IsDict(u_x) /\ Truthy(u_x)
    /\ IsDict(u_y) \/ IsNull(u_y)
    /\ u_op' = "update_payload"
    /\ \E ks \in KeySets :
          /\ u_keys' = ks
          /\ u_out' = update_payload(u_x, u_y, ks)
    /\ u_pc' = "out"
    /\ UNCHANGED <<u_x, u_y, u_paths, run, paging, race>>

NextUtils ==
    \/ ApplyPruneUnset
    \/ ApplyStripReadonly
    \/ ApplyDeepMerge
    \/ ApplySubsetDiff
    \/ ApplyBuildBeforeAfter
    \/ ApplySiteSubsetDiff
    \/ ApplyUpdatePayload

SpecUtils == InitUtils /\ [][NextUtils]_vars

\* ------------------------------------------------------------------------
\* Properties of the nce_utils functions (specification SpecUtils)
\* ------------------------------------------------------------------------
Returned(op) == u_pc = "out" /\ u_op = op

\* out is x without its mapping entries of value null, at every depth
RECURSIVE PrunedFrom(_, _)
PrunedFrom(out, x) ==
    IF IsDict(x)
    THEN /\ IsDict(out)
         /\ DOMAIN out.d = {k \in DOMAIN x.d : x.d[k] # Null}
         /\ \A k \in DOMAIN out.d : PrunedFrom(out.d[k], x.d[k])
    ELSE IF IsList(x)
    THEN /\ IsList(out)
         /\ Len(out.l) = Len(x.l)
         /\ \A i \in 1..Len(x.l) : PrunedFrom(out.l[i], x.l[i])
    ELSE out = x

\* some mapping inside x, at any depth, has an entry of value null
RECURSIVE HasNullEntry(_)
HasNullEntry(x) ==
    IF IsDict(x)
    THEN \E k \in DOMAIN x.d : IsNull(x.d[k]) \/ HasNullEntry(x.d[k])
    ELSE IF IsList(x)
    THEN \E i \in 1..Len(x.l) : HasNullEntry(x.l[i])
    ELSE FALSE

\* C13: prune_unset removes the mapping entries of value null at every
\* depth, inside the mappings of sequences too, keeps every other entry and
\* every mapping or sequence that is or becomes empty; its result has no
\* mapping entry of value null; prune({a: 1, b: null, c: {d: null}}) is
\* {a: 1, c: {}}
C13_PruneUnset ==
    Returned("prune_unset")
        => /\ PrunedFrom(u_out, u_x)
           /\ ~HasNullEntry(u_out)
           /\ u_x = Dict([a |-> Num(1), b |-> Null, c |-> Dict([d |-> Null])])
                 => u_out = Dict([a |-> Num(1), c |-> EmptyDict])

C13_Witness ==
    /\ Returned("prune_unset")
    /\ u_x = Dict([tags |-> List(<<Null, Dict([city |-> Null])>>), geo |-> EmptyDict])
    /\ u_out = Dict([tags |-> List(<<Null, EmptyDict>>), geo |-> EmptyDict])

\* out is x without its mapping entries of a key of keyset, at every depth
RECURSIVE StrippedFrom(_, _, _)
StrippedFrom(out, x, keyset) ==
    IF IsDict(x)
    THEN /\ IsDict(out)
         /\ DOMAIN out.d = {k \in DOMAIN x.d : k \notin keyset}
         /\ \A k \in DOMAIN out.d : StrippedFrom(out.d[k], x.d[k], keyset)
    ELSE IF IsList(x)
    THEN /\ IsList(out)
         /\ Len(out.l) = Len(x.l)
         /\ \A i \in 1..Len(x.l) : StrippedFrom(out.l[i], x.l[i], keyset)
    ELSE out = x

\* C14: strip_readonly removes the mapping entries whose key is in the
\* read-only key set at every depth, inside sequence elements too, and leaves
\* every other key, every value and the order of every sequence as they
\* were; strip_readonly({id: x, name: y}, {id}) is {name: y}
C14_StripReadonly ==
    Returned("strip_readonly")
        => /\ StrippedFrom(u_out, u_x, u_keys)
           /\ ~HasKeyIn(u_out, u_keys)
           /\ (u_x = Dict([id |-> Str("X"), name |-> Str("Y")]) /\ u_keys = {"id"})
                 => u_out = Dict([name |-> Str("Y")])

C14_Witness ==
    /\ Returned("strip_readonly")
    /\ u_x = Dict([tags |-> List(<<Dict([name |-> Str("a"), id |-> Num(1)]),
                                   Dict([name |-> Str("b")])>>)])
    /\ u_out = Dict([tags |-> List(<<Dict([name |-> Str("a")]), Dict([name |-> Str("b")])>>)])

\* a and b are the same value: mappings with the same entries, lists at an
\* ordered path equal element by element, every other list with the same
\* elements in the same numbers in any order
RECURSIVE SameValue(_, _, _, _)
SameValue(a, b, paths, path) ==
    IF IsDict(a) /\ IsDict(b)
    THEN /\ DOMAIN a.d = DOMAIN b.d
         /\ \A k \in DOMAIN a.d : SameValue(a.d[k], b.d[k], paths, Append(path, k))
    ELSE IF IsList(a) /\ IsList(b)
    THEN /\ Len(a.l) = Len(b.l)
         /\ IF DottedPath(path) \in paths
            THEN \A i \in 1..Len(a.l) : SameValue(a.l[i], b.l[i], paths, path)
            ELSE \E f \in Permutations(1..Len(a.l)) :
                    \A i \in 1..Len(a.l) : SameValue(a.l[i], b.l[f[i]], paths, path)
    ELSE a = b

\* the part of a diff under key k, Absent when the diff has nothing there
Absent == [t |-> "absent"]
Under(sub, k) == IF IsDict(sub) /\ k \in DOMAIN sub.d THEN sub.d[k] ELSE Absent

\* the desired side of the result: the diff of subset_diff, the "after" of
\* build_before_after
DesiredSide ==
    IF IsNull(u_out) THEN Absent
    ELSE IF u_op = "build_before_after" THEN u_out.d["after"]
    ELSE u_out

\* every list of des at a path that is ordered (ordered = TRUE) or unordered
\* (ordered = FALSE) is absent from the diff exactly when cur holds the same
\* list there
RECURSIVE ListsJudged(_, _, _, _, _, _)
ListsJudged(cur, des, sub, paths, path, ordered) ==
    IF IsDict(des)
    THEN IsDict(OrEmptyDict(cur))
            => \A k \in DOMAIN des.d :
                  ListsJudged(Get(OrEmptyDict(cur), k), des.d[k], Under(sub, k),
                              paths, Append(path, k), ordered)
    ELSE IF IsList(des) /\ ((DottedPath(path) \in paths) <=> ordered)
    THEN (sub.t = "absent") <=> SameValue(cur, des, paths, path)
    ELSE TRUE

Diffed == u_pc = "out" /\ u_op \in {"subset_diff", "build_before_after"} /\ ~IsRaise(u_out)

\* C15: a list of desired at a path outside the ordered-list path set counts
\* as unchanged, for subset_diff and build_before_after alike, exactly when
\* current holds the same elements in the same numbers, in any order; a
\* permutation of the same list gives None
C15_UnorderedLists ==
    Diffed
        => /\ ListsJudged(u_x, u_y, DesiredSide, u_paths, <<>>, FALSE)
           /\ (/\ u_x = Dict([tags |-> List(<<Str("b"), Str("a")>>)])
               /\ u_y = Dict([tags |-> List(<<Str("a"), Str("b")>>)])
               /\ u_paths = {})
                 => IsNull(u_out)

C15_Witness ==
    /\ Returned("build_before_after")
    /\ u_paths = {"geo.tags"}
    /\ u_x = Dict([tags |-> List(<<Dict([name |-> Str("b")]), Dict([name |-> Str("a")])>>)])
    /\ u_y = Dict([tags |-> List(<<Dict([name |-> Str("a")]), Dict([name |-> Str("b")])>>)])
    /\ IsNull(u_out)

\* C16: a list of desired at a path of the ordered-list path set counts as
\* unchanged, for subset_diff and build_before_after alike, exactly when
\* current holds an equal list, element by element in the same order; the
\* same elements in another order give a diff
C16_OrderedLists ==
    Diffed
        => /\ ListsJudged(u_x, u_y, DesiredSide, u_paths, <<>>, TRUE)
           /\ (/\ u_x = Dict([tags |-> List(<<Str("b"), Str("a")>>)])
               /\ u_y = Dict([tags |-> List(<<Str("a"), Str("b")>>)])
               /\ u_paths = {"tags"})
                 => ~IsNull(u_out)

C16_Witness ==
    /\ Returned("subset_diff")
    /\ u_paths = {"geo.tags"}
    /\ u_x = Dict([geo |-> Dict([tags |-> List(<<Str("b"), Str("a")>>)])])
    /\ u_y = Dict([geo |-> Dict([tags |-> List(<<Str("a"), Str("b")>>)])])
    /\ u_out = u_y

\* the Differ applied to another current record
DifferOn(c) ==
    IF u_op = "subset_diff" THEN subset_diff(c, u_y, u_paths, <<>>)
    ELSE build_before_after(c, u_y, u_paths, <<>>)

\* every key of every mapping inside x
RECURSIVE KeysInside(_)
KeysInside(x) ==
    IF IsDict(x)
    THEN (DOMAIN x.d) \cup UNION {KeysInside(x.d[k]) : k \in DOMAIN x.d}
    ELSE IF IsList(x)
    THEN UNION {KeysInside(x.l[i]) : i \in 1..Len(x.l)}
    ELSE {}

\* c2 is c1 with mapping entries added, at any depth, under keys outside keyset
RECURSIVE AddsFields(_, _, _)
AddsFields(c2, c1, keyset) ==
    IF IsDict(c1) /\ IsDict(c2)
    THEN /\ DOMAIN c1.d \subseteq DOMAIN c2.d
         /\ ((DOMAIN c2.d) \ (DOMAIN c1.d)) \cap keyset = {}
         /\ \A k \in DOMAIN c1.d : AddsFields(c2.d[k], c1.d[k], keyset)
    ELSE IF IsList(c1) /\ IsList(c2)
    THEN /\ Len(c1.l) = Len(c2.l)
         /\ \A i \in 1..Len(c1.l) : AddsFields(c2.l[i], c1.l[i], keyset)
    ELSE c1 = c2

\* c1 and c2 hold the same value at every path of D
RECURSIVE AgreeOn(_, _, _)
AgreeOn(c1, c2, D) ==
    IF IsDict(D)
    THEN \/ c1 = c2
         \/ /\ IsDict(OrEmptyDict(c1))
            /\ IsDict(OrEmptyDict(c2))
            /\ \A k \in DOMAIN D.d :
                  AgreeOn(Get(OrEmptyDict(c1), k), Get(OrEmptyDict(c2), k), D.d[k])
    ELSE c1 = c2

\* C17 as stated: for a desired mapping, a field added to current at any
\* depth, which desired does not contain, never changes the result of
\* subset_diff or build_before_after, and two current records that agree on
\* every path of desired give the same result
C17_OneDirectional ==
    (Diffed /\ IsDict(u_y)) =>
        \A c \in UValues :
            (AddsFields(c, u_x, KeysInside(u_y)) \/ AgreeOn(u_x, c, u_y))
                => DifferOn(c) = u_out

\* C17 amended: two current records that agree on every path of desired give
\* the same result of subset_diff and of build_before_after, whatever else
\* the mappings that desired descends into hold; a field added inside a value
\* that desired gives as a list or a scalar is part of that value and may
\* change the result
C17_AgreeingCurrentsSameDiff ==
    (u_pc = "out" /\ u_op \in {"subset_diff", "build_before_after"})
        => \A c \in UValues : AgreeOn(u_x, c, u_y) => DifferOn(c) = u_out

C17_Witness ==
    /\ Returned("build_before_after")
    /\ u_y = Dict([name |-> Str("Y")])
    /\ u_x = Dict([geo |-> Dict([lat |-> Str("a")])])
    /\ AgreeOn(u_x, Dict([geo |-> Dict([lat |-> Str("a"), lon |-> Str("X")]),
                          city |-> Str("Y")]), u_y)
    /\ u_out = Dict([before |-> Dict([name |-> Null]), after |-> u_y])

\* C25: for every current value and every desired object without null
\* values, the subset_diff of nce_site.py returns what nce_utils.subset_diff
\* returns without ordered-list paths
C25_SiteDifferAgrees ==
    (Returned("site_subset_diff") /\ IsDict(u_y) /\ ~HasNullEntry(u_y))
        => u_out = subset_diff(u_x, u_y, {}, <<>>)

\* C26: for every current value and every desired object without null
\* values, build_before_after returns None exactly when subset_diff returns
\* None, and otherwise its 'after' part is the result of subset_diff
C26_BeforeAfterAgreesWithSubsetDiff ==
    (Returned("build_before_after") /\ IsDict(u_y) /\ ~HasNullEntry(u_y))
        => LET sd == subset_diff(u_x, u_y, u_paths, <<>>)
           IN /\ IsRaise(u_out) <=> IsRaise(sd)
              /\ IsNull(u_out) <=> IsNull(sd)
              /\ (~IsNull(u_out) /\ ~IsRaise(u_out)) => u_out.d["after"] = sd

C26_Witness ==
    /\ Returned("build_before_after")
    /\ u_x = Dict([geo |-> Dict([lat |-> Str("a"), lon |-> Str("X")]), city |-> Str("Y")])
    /\ u_y = Dict([name |-> Str("Y")])
    /\ u_out = Dict([before |-> Dict([name |-> Null]), after |-> u_y])

\* C27: the update payload built for a current record and a desired object
\* has no difference left to the pruned desired object, whatever the
\* ordered-list paths
C27_PayloadSatisfiesDesired ==
    Returned("update_payload")
        => \A ps \in PathSets :
              IsNull(subset_diff(u_out, prune_unset(OrEmptyDict(u_y)), ps, <<>>))

C27_Witness ==
    /\ Returned("update_payload")
    /\ u_x = Dict([geo |-> Str("a")])
    /\ u_y = Dict([name |-> Str("Y"),
                   geo |-> Dict([lat |-> Str("a"), lon |-> Null, id |-> Num(1)])])
    /\ u_out = Dict([name |-> Str("Y"), geo |-> Dict([lat |-> Str("a"), id |-> Num(1)])])

\* C28: subset_diff and build_before_after return a diff or None, and never
\* raise, whatever the current and the desired value
C28_DifferIsTotal ==
    (u_pc = "out" /\ u_op \in {"subset_diff", "build_before_after"})
        => ~IsRaise(u_out)

\* ------------------------------------------------------------------------
\* module_utils/helpers.py: resolve_unique, on its own
\* ------------------------------------------------------------------------
\* str.lower() on code points
Lower(codes) ==
    [i \in 1..Len(codes) |-> IF codes[i] >= 65 /\ codes[i] <= 90 THEN codes[i] + 32
                             ELSE codes[i]]

\* repr(x) of a JSON-like value, the keys of a mapping in sorted order
RECURSIVE PyRepr(_)
PyRepr(x) ==
    CASE x.t = "null" -> <<78, 111, 110, 101>>
      [] x.t = "str"  -> <<39>> \o StrCodes(x.s) \o <<39>>
      [] x.t = "num"  -> IF x.n < 0 THEN <<45>> \o Digits(0 - x.n) ELSE Digits(x.n)
      [] x.t = "list" ->
            <<91>> \o JoinCodes([i \in 1..Len(x.l) |-> PyRepr(x.l[i])], <<44, 32>>) \o <<93>>
      [] x.t = "dict" ->
            LET ks == SortedKeys(DOMAIN x.d)
            IN <<123>> \o
               JoinCodes([i \in 1..Len(ks) |->
                            <<39>> \o StrCodes(ks[i]) \o <<39, 58, 32>> \o PyRepr(x.d[ks[i]])],
                         <<44, 32>>)
               \o <<125>>

\* str(x): the text of a string, the repr of everything else
PyStr(x) == IF x.t = "str" THEN StrCodes(x.s) ELSE PyRepr(x)

ValueError(m) == [t |-> "ValueError", msg |-> m]
IsValueError(x) == x.t = "ValueError"

\* lines 62-66: the value of o along the parts of a dotted key, Missing when a
\* part is not a key of a mapping
Missing == [t |-> "missing"]

RECURSIVE Walk(_, _)
Walk(ov, parts) ==
    IF Len(parts) = 0 THEN ov
    ELSE IF IsDict(ov) /\ Head(parts) \in DOMAIN ov.d
    THEN Walk(ov.d[Head(parts)], Tail(parts))
    ELSE Missing

\* lines 58-68; where maps each key, given as the parts k.split('.') yields,
\* to the expected value
match(o, where) ==
    \A k \in DOMAIN where :
        LET ov == Walk(o, k)
        IN ov # Missing /\ Lower(PyStr(ov)) = Lower(PyStr(where[k]))

\* line 74: the key of a record under unique_by
UniqueKey(o, unique_by) ==
    [i \in 1..Len(unique_by) |-> Lower(PyStr(Get(o, unique_by[i])))]

\* lines 72-79: the first record of every key, in order
RECURSIVE Uniq(_, _, _)
Uniq(ms, unique_by, keyset) ==
    IF Len(ms) = 0 THEN <<>>
    ELSE LET key == UniqueKey(Head(ms), unique_by)
         IN IF key \in keyset THEN Uniq(Tail(ms), unique_by, keyset)
            ELSE <<Head(ms)>> \o Uniq(Tail(ms), unique_by, keyset \cup {key})

resolve_unique(objects, where, unique_by) ==
    LET matches0 == SelectSeq(objects, LAMBDA o : match(o, where))
        matches1 == IF Len(unique_by) > 0 THEN Uniq(matches0, unique_by, {}) ELSE matches0
    IN IF Len(matches1) = 0 THEN ValueError("No match for resolver criteria")
       ELSE IF Len(matches1) > 1 THEN ValueError("Multiple matches for resolver criteria")
       ELSE matches1[1]

\* the records, the criteria and the uniqueness keys resolve_unique is given;
\* no criteria and no uniqueness keys are the empty ones (`where or {}`,
\* `if unique_by`)
LookupObjects ==
    { Dict([id |-> Num(1), name |-> Str("S1"), city |-> Str("X")]),
      Dict([id |-> Num(2), name |-> Str("S1"), city |-> Str("Y")]),
      Dict([id |-> Str("1"), name |-> Str("s1"), city |-> Str("X"),
            geo |-> Dict([lat |-> Str("a")])]),
      Dict([id |-> Num(4), name |-> Str("S2"), city |-> Str("X")]) }

MaxObjects == 3

Wheres ==
    { <<>>,
      [k \in {<<"name">>} |-> Str("S1")],
      [k \in {<<"city">>} |-> Str("X")],
      [k \in {<<"id">>} |-> Num(1)],
      [k \in {<<"geo", "lat">>} |-> Str("a")],
      [k \in {<<"name">>, <<"city">>} |-> IF k = <<"name">> THEN Str("s1") ELSE Str("Y")] }

\* the lists of distinct records
ObjectLists ==
    {q \in SeqsUpTo(LookupObjects, MaxObjects) :
        \A i, j \in 1..Len(q) : i # j => q[i] # q[j]}

UniqueBys == {<<>>, <<"name">>, <<"name", "city">>}

InitLookup ==
    /\ RunIdle
    /\ PagingIdle
    /\ RaceIdle
    /\ u_pc = "in"
    /\ u_op = ""
    /\ u_x \in ObjectLists
    /\ u_y \in Wheres
    /\ u_keys \in UniqueBys
    /\ u_paths = {}
    /\ u_out = Null

ApplyResolveUnique ==
    /\ u_pc = "in"
    /\ u_op' = "resolve_unique"
    /\ u_out' = resolve_unique(u_x, u_y, u_keys)
    /\ u_pc' = "out"
    /\ UNCHANGED <<u_x, u_y, u_keys, u_paths, run, paging, race>>

SpecLookup == InitLookup /\ [][ApplyResolveUnique]_vars

\* the records of objects that match the criteria
Matching == SelectSeq(u_x, LAMBDA o : match(o, u_y))

\* C23: resolve_unique returns a record only when exactly one record matches
\* the criteria, and then that record; with no match and with more than one
\* it raises, with or without uniqueness keys
C23_OnlyTheUniqueMatch ==
    Returned("resolve_unique")
        => /\ Len(Matching) = 1 => u_out = Matching[1]
           /\ Len(Matching) # 1 => IsValueError(u_out)

\* ------------------------------------------------------------------------
\* tools/packaging/pack_collection_with_extractor.py: the packer and the
\* extractor script it embeds.  A text is a sequence of lines; a line is
\* what it starts with (k), the rest of its text (v), its line ending (eol)
\* and, for a line of base64 text, the encoded data (x):
\*   k = "plain"     a line that does not start with "### "
\*   k = "b64"       a line of base64 text
\*   k = "hash"      a line that starts with "### " and is none of the others
\*   k = "FILE", "TYPE", "ENCODING", "MODE", "SIZE", "SHA256"
\*                   the line "### <k>: <v>"
\*   k = "END FILE"  the line "### END FILE"
\* ------------------------------------------------------------------------
Line(k, v, e) == [k |-> k, v |-> v, eol |-> e, x |-> <<>>]

\* the content of a file: its lines when it is a text, its bytes when it is
\* not; the empty file has neither
Data(ls, bs) == [lines |-> ls, bytes |-> bs]

\* base64.b64encode: three bytes give four sextets, a last group of one or
\* two bytes is padded (64 stands for "=")
RECURSIVE b64encode(_)
b64encode(bs) ==
    IF Len(bs) = 0 THEN <<>>
    ELSE IF Len(bs) = 1
    THEN <<bs[1] \div 4, (bs[1] % 4) * 16, 64, 64>>
    ELSE IF Len(bs) = 2
    THEN <<bs[1] \div 4, (bs[1] % 4) * 16 + bs[2] \div 16, (bs[2] % 16) * 4, 64>>
    ELSE <<bs[1] \div 4, (bs[1] % 4) * 16 + bs[2] \div 16,
           (bs[2] % 16) * 4 + bs[3] \div 64, bs[3] % 64>>
         \o b64encode(SubSeq(bs, 4, Len(bs)))

\* base64.b64decode of well-formed base64 text; 64 stands for "="
RECURSIVE b64decode(_)
b64decode(sx) ==
    IF Len(sx) < 4 THEN <<>>
    ELSE LET b1 == sx[1] * 4 + sx[2] \div 16
             b2 == (sx[2] % 16) * 16 + sx[3] \div 4
             b3 == (sx[3] % 4) * 64 + sx[4]
         IN IF sx[3] = 64 THEN <<b1>>
            ELSE IF sx[4] = 64 THEN <<b1, b2>>
            ELSE <<b1, b2, b3>> \o b64decode(SubSeq(sx, 5, Len(sx)))

\* lines 144-155: data with a NUL byte or that is not UTF-8 goes as base64
detect_text_or_binary(data) ==
    IF Len(data.bytes) > 0
    THEN [ftype |-> "binary", enc |-> "base64",
          payload |-> <<[Line("b64", "", "") EXCEPT !.x = b64encode(data.bytes)]>>]
    ELSE [ftype |-> "text", enc |-> "utf-8", payload |-> data.lines]

\* lines 214-221: the payload as written, ended by a newline when it is not
\* empty and does not end with one
WithFinalNewline(payload) ==
    IF Len(payload) > 0 /\ payload[Len(payload)].eol = ""
    THEN [payload EXCEPT ![Len(payload)].eol = "LF"]
    ELSE payload

\* lines 208-223: what the packer writes for one file; the extractor keeps
\* the size and the digest in meta and never reads them, so their text is
\* left out
PackFile(f) ==
    LET d == detect_text_or_binary(f.data)
    IN << Line("FILE", f.path, "LF"),
          Line("TYPE", d.ftype, "LF"),
          Line("ENCODING", d.enc, "LF"),
          Line("MODE", "0o644", "LF"),
          Line("SIZE", "", "LF"),
          Line("SHA256", "", "LF") >>
       \o WithFinalNewline(d.payload)
       \o << Line("END FILE", "", "LF"), Line("plain", "", "LF") >>

\* lines 188-199: the extractor script, the README and the bundle header
BundleHeader ==
    << Line("plain", "x", "LF"),
       Line("hash", "INSTRUCTIONS", "LF"),
       Line("plain", "", "LF"),
       Line("hash", "BUNDLE", "LF"),
       Line("hash", "COUNT", "LF"),
       Line("plain", "", "LF") >>

RECURSIVE PackFiles(_)
PackFiles(files) ==
    IF Len(files) = 0 THEN <<>>
    ELSE PackFile(Head(files)) \o PackFiles(Tail(files))

\* lines 186-224 of main
pack(files) == BundleHeader \o PackFiles(files) \o <<Line("hash", "END BUNDLE", "LF")>>

\* lines 35-36: the bundle read in text mode, every line ending made "\n"
readlines(written) ==
    [i \in 1..Len(written) |-> [written[i] EXCEPT !.eol = "LF"]]

StartsWithHash(l) == l.k \notin {"plain", "b64"}
IsEndFile(l) == l.k = "END FILE"
IsBlank(l) == l.k = "plain" /\ l.v = ""

\* lines 47-62: the header lines of a file; gives the index of the first
\* content line and the encoding
RECURSIVE MetaLoop(_, _, _)
MetaLoop(lines, i, enc) ==
    IF i <= Len(lines) /\ StartsWithHash(lines[i])
    THEN LET enc2 == IF lines[i].k = "ENCODING" THEN lines[i].v ELSE enc
         IN IF i + 1 <= Len(lines) /\ IsEndFile(lines[i + 1])
            THEN [i |-> i + 1, enc |-> enc2]
            ELSE MetaLoop(lines, i + 1, enc2)
    ELSE [i |-> i, enc |-> enc]

\* lines 64-66: the index of the line that ends the content
RECURSIVE ContentEnd(_, _)
ContentEnd(lines, i) ==
    IF i <= Len(lines) /\ ~IsEndFile(lines[i]) THEN ContentEnd(lines, i + 1) ELSE i

\* line 73: the content is base64 text when it is lines of base64 and blank
\* lines; anything else in the model's lines makes b64decode raise
IsBase64Text(content) ==
    /\ \A n \in 1..Len(content) : content[n].k = "b64" \/ IsBlank(content[n])
    /\ Cardinality({n \in 1..Len(content) : content[n].k = "b64"}) <= 1

Base64Bytes(content) ==
    IF \E n \in 1..Len(content) : content[n].k = "b64"
    THEN b64decode(content[CHOOSE n \in 1..Len(content) : content[n].k = "b64"].x)
    ELSE <<>>

\* lines 39-79: parse_bundle with a destination; raised when b64decode
\* raises, the files written before staying written
RECURSIVE parse_bundle(_, _, _)
parse_bundle(lines, i, files) ==
    IF i > Len(lines) THEN [files |-> files, raised |-> FALSE]
    ELSE IF lines[i].k # "FILE" THEN parse_bundle(lines, i + 1, files)
    ELSE LET m == MetaLoop(lines, i + 1, "utf-8")
             e == ContentEnd(lines, m.i)
             content_lines == SubSeq(lines, m.i, e - 1)
             i2 == IF e <= Len(lines) THEN e + 1 ELSE e
             i3 == IF i2 <= Len(lines) /\ IsBlank(lines[i2]) THEN i2 + 1 ELSE i2
         IN IF m.enc = "base64"
            THEN IF IsBase64Text(content_lines)
                 THEN parse_bundle(lines, i3,
                                   Append(files, [path |-> lines[i].v,
                                                  data |-> Data(<<>>, Base64Bytes(content_lines))]))
                 ELSE [files |-> files, raised |-> TRUE]
            ELSE parse_bundle(lines, i3,
                              Append(files, [path |-> lines[i].v,
                                             data |-> Data(content_lines, <<>>)]))

unpack(written) == parse_bundle(readlines(written), 1, <<>>)

\* the files a directory holds after the files of a list were written in order
Tree(files) ==
    [q \in {files[n].path : n \in 1..Len(files)} |->
        files[CHOOSE n \in 1..Len(files) :
                 /\ files[n].path = q
                 /\ \A h \in 1..Len(files) : files[h].path = q => h <= n].data]

\* the lines a text file is made of: ordinary and empty lines, and lines
\* that read like the lines of a bundle
LineTexts ==
    { <<"plain", "x">>, <<"plain", "">>, <<"hash", "x">>, <<"END FILE", "">>,
      <<"FILE", "g">>, <<"ENCODING", "base64">> }

MaxLines == 2

\* every line but the last ends with "\n" or "\r\n"; the last may end with
\* nothing, and is not empty then
TextLines ==
    {q \in SeqsUpTo({Line(t[1], t[2], e) : t \in LineTexts, e \in {"LF", "CRLF", ""}},
                    MaxLines) :
        /\ \A n \in 1..(Len(q) - 1) : q[n].eol # ""
        /\ Len(q) > 0 => (q[Len(q)].eol = "" => q[Len(q)].v # "" \/ q[Len(q)].k # "plain")}

BinaryData == {<<0>>, <<255, 0>>, <<0, 65, 10>>, <<0, 1, 2, 255>>}

Contents == {Data(q, <<>>) : q \in TextLines} \cup {Data(<<>>, b) : b \in BinaryData}

\* the files under the root, in the order of sorted()
FileLists ==
    {<<[path |-> "f", data |-> c]>> : c \in Contents}
    \cup {<<[path |-> "f", data |-> c], [path |-> "g", data |-> d]>> :
             c \in Contents,
             d \in {Data(<<>>, <<>>), Data(<<Line("plain", "x", "LF")>>, <<>>),
                    Data(<<>>, <<0>>)}}

InitBundle ==
    /\ RunIdle
    /\ PagingIdle
    /\ RaceIdle
    /\ u_pc = "in"
    /\ u_op = ""
    /\ u_x \in FileLists
    /\ u_y = Null
    /\ u_keys = {}
    /\ u_paths = {}
    /\ u_out = Null

\* the packer writes the bundle of the files
Pack ==
    /\ u_pc = "in"
    /\ u_op' = "pack"
    /\ u_y' = pack(u_x)
    /\ u_pc' = "packed"
    /\ UNCHANGED <<u_x, u_keys, u_paths, u_out, run, paging, race>>

\* the extractor restores the files of the bundle
Unpack ==
    /\ u_pc = "packed"
    /\ u_op' = "unpack"
    /\ u_out' = unpack(u_y)
    /\ u_pc' = "out"
    /\ UNCHANGED <<u_x, u_y, u_keys, u_paths, run, paging, race>>

NextBundle ==
    \/ Pack
    \/ Unpack

SpecBundle == InitBundle /\ [][NextBundle]_vars

\* C30: unpacking the bundle the packer wrote restores every file at its
\* path with the content it had, and no other file
C30_RoundTrip ==
    Returned("unpack")
        => /\ ~u_out.raised
           /\ Tree(u_out.files) = Tree(u_x)

\* ------------------------------------------------------------------------
\* The pagination loops against a remote system that answers what it likes:
\*   nce_http.iter_paged under find_candidates and find_by_selector_or_name,
\*   nce_site._iter_sites under _find_site,
\*   helpers.paged_get_devices, helpers.paged_get_sites,
\*   the device loop of InventoryModule.parse
\* ------------------------------------------------------------------------
PagerRoutines == {"find_candidates", "find_by_selector_or_name", "_find_site"}
LoopRoutines == {"paged_get_devices", "paged_get_sites", "nce_inventory"}

\* records the remote system serves: two of the name S1 in city X, one other
PgFirst == Dict([id |-> Num(1), name |-> Str("S1"), city |-> Str("X")])
PgSecond == Dict([id |-> Num(2), name |-> Str("S1"), city |-> Str("X")])
PgOther == Dict([id |-> Num(3), name |-> Str("S2"), city |-> Str("Y")])

\* pages of page_size records and of one record less
FullPageOf(rec) == [i \in 1..PageSize |-> rec]
ShortPageOf(rec) == [i \in 1..(PageSize - 1) |-> rec]
FullPageMatchLast == [i \in 1..PageSize |-> IF i = PageSize THEN PgFirst ELSE PgOther]
FullPageMatchFirst == [i \in 1..PageSize |-> IF i = 1 THEN PgFirst ELSE PgSecond]

\* what the list endpoint may answer to iter_paged and _iter_sites
ListResponses ==
    { Dict([data |-> List(FullPageOf(PgOther))]),
      Dict([data |-> List(FullPageMatchFirst)]),
      Dict([list |-> List(FullPageMatchLast)]),
      List(FullPageOf(PgOther)),
      Dict([data |-> Dict([list |-> List(FullPageOf(PgOther))])]),
      Dict([data |-> List(<<>>), sites |-> List(FullPageOf(PgOther))]),
      Dict([data |-> List(ShortPageOf(PgOther))]),
      Dict([data |-> List(<<>>)]),
      Dict([data |-> Str("X")]),
      PgOther }

ReturnsFirstMatchNever(rt) == FALSE

\* find_by_selector_or_name and _find_site return from inside their loop
ReturnsFirstMatch(rt) == rt \in {"find_by_selector_or_name", "_find_site"}

\* d.get(k, default)
GetOr(d, k, default) == IF k \in DOMAIN d.d THEN d.d[k] ELSE default

\* what the device and site endpoints may answer to the uncapped loops
Totals == {0, TotalMax}
Pages == {FullPageOf(PgFirst), FullPageOf(PgOther), ShortPageOf(PgOther), <<>>}

DeviceResponses ==
    {Dict([data |-> Dict([devices |-> List(pg),
                          pagination |-> Dict([totalSize |-> Num(t)])])]) :
        pg \in Pages, t \in Totals}
    \cup {Dict([data |-> Dict([devices |-> List(pg)])]) : pg \in Pages}
    \cup {EmptyDict}

SiteResponses ==
    {Dict([sites |-> List(pg), totalRecords |-> Num(t)]) : pg \in Pages, t \in Totals}
    \cup {Dict([sites |-> List(pg)]) : pg \in Pages}
    \cup {Dict([totalRecords |-> Num(TotalMax)])}

InventoryResponses == {Dict([data |-> List(pg)]) : pg \in Pages} \cup {Null}

InitPaging ==
    /\ remote = <<>>
    /\ nextId = 1
    /\ filterExact = FALSE
    /\ interfered = FALSE
    /\ in_selector \in {Null, Dict([city |-> Str("X")])}
    /\ in_object = Dict([name |-> Str("S1")])
    /\ in_state = "present"
    /\ check_mode = FALSE
    /\ routine \in PagerRoutines \cup LoopRoutines
    /\ routine \in LoopRoutines => in_selector = Null
    /\ pc = "scan"
    /\ callNo = 1
    /\ selector = OrEmptyDict(in_selector)
    /\ desired = in_object
    /\ page_index = IF routine = "paged_get_devices" THEN 1 ELSE 0
    /\ matches = <<>>
    /\ current = Null
    /\ ret = NoRet
    /\ fail = NoFail
    /\ calls = <<>>
    /\ fetched = <<>>
    /\ remote0 = <<>>
    /\ first = NoFirst
    /\ last_page = <<>>
    /\ all_len = 0
    /\ hosts = {}
    /\ UtilsIdle
    /\ RaceIdle

\* one turn of iter_paged or _iter_sites and of the loop that consumes it:
\* the request, the records taken out of the answer, the records the
\* consumer looks at
PagedRequest ==
    /\ routine \in PagerRoutines
    /\ pc = "scan"
    /\ \E res \in ListResponses :
          LET query == ListQuery(BaseFilters(selector, DesiredName), page_index)
              page == IF routine = "_find_site" THEN SiteExtractItems(res)
                      ELSE ExtractItems(res)
              dicts == {i \in 1..Len(page) : IsDict(page[i])}
              bad == (1..Len(page)) \ dicts
              hits == {i \in dicts : Matches(page[i], selector, DesiredName)}
              ends == bad \cup (IF ReturnsFirstMatch(routine) THEN hits ELSE {})
              n == CHOOSE i \in ends : \A j \in ends : i <= j
              Hit(it) == IsDict(it) /\ Matches(it, selector, DesiredName)
          IN /\ calls' = Append(calls, Request("list", Null, Null, query))
             /\ last_page' = page
             /\ IF ends # {}
                THEN /\ fetched' = fetched \o SubSeq(page, 1, n)
                     /\ page_index' = page_index
                     /\ IF n \in bad
                        THEN /\ pc' = "raised"
                             /\ current' = Null
                             /\ matches' = matches \o SelectSeq(SubSeq(page, 1, n - 1), Hit)
                        ELSE /\ pc' = "done"
                             /\ current' = page[n]
                             /\ matches' = matches
                ELSE /\ fetched' = fetched \o page
                     /\ matches' = matches \o SelectSeq(page, Hit)
                     /\ current' = Null
                     /\ IF PageEnds(page) \/ page_index + 1 >= MaxPages
                        THEN pc' = "done" /\ page_index' = page_index
                        ELSE pc' = pc /\ page_index' = page_index + 1
    /\ UNCHANGED <<remote, nextId, interfered, inputs, callNo, selector, desired, ret,
                   fail, remote0, first, routine, all_len, hosts, utils, race>>

\* one turn of the loop of paged_get_devices
DevicesPage ==
    /\ routine = "paged_get_devices"
    /\ pc = "scan"
    /\ \E resp \in DeviceResponses :
          LET data == GetOr(resp, "data", EmptyDict)
              pagination == GetOr(data, "pagination", EmptyDict)
              devices == GetOr(data, "devices", List(<<>>))
              len_all == Min(all_len + Len(devices.l), TotalMax)
              total == GetOr(pagination, "totalSize", Num(len_all))
          IN /\ last_page' = devices.l
             /\ all_len' = len_all
             /\ IF len_all >= total.n \/ Len(devices.l) = 0
                THEN pc' = "done" /\ page_index' = page_index
                ELSE pc' = pc /\ page_index' = Min(page_index + 1, MaxPageNo)
    /\ UNCHANGED <<remote, nextId, interfered, inputs, callNo, selector, desired, matches,
                   current, ret, fail, calls, fetched, remote0, first, routine, hosts,
                   utils, race>>

\* one turn of the loop of paged_get_sites
SitesPage ==
    /\ routine = "paged_get_sites"
    /\ pc = "scan"
    /\ \E resp \in SiteResponses :
          LET sites == IF IsNull(Get(resp, "sites")) THEN GetOr(resp, "sites", List(<<>>))
                       ELSE Get(resp, "sites")
              total == GetOr(resp, "totalRecords", Num(Len(sites.l)))
              len_all == Min(all_len + Len(sites.l), TotalMax)
          IN /\ last_page' = sites.l
             /\ all_len' = len_all
             /\ IF len_all >= total.n \/ Len(sites.l) = 0
                THEN pc' = "done" /\ page_index' = page_index
                ELSE pc' = pc /\ page_index' = Min(page_index + 1, MaxPageNo)
    /\ UNCHANGED <<remote, nextId, interfered, inputs, callNo, selector, desired, matches,
                   current, ret, fail, calls, fetched, remote0, first, routine, hosts,
                   utils, race>>

\* the host name the inventory plugin gives a device: its name, else its id
HostNames(devs) ==
    {IF Truthy(Get(devs[i], "name")) THEN Get(devs[i], "name") ELSE Get(devs[i], "id") :
        i \in {j \in 1..Len(devs) :
                  Truthy(Get(devs[j], "name")) \/ Truthy(Get(devs[j], "id"))}}

\* one turn of the device loop of InventoryModule.parse, with no site_ids
InventoryPage ==
    /\ routine = "nce_inventory"
    /\ pc = "scan"
    /\ \E resp \in InventoryResponses :
          LET got == Get(OrEmptyDict(resp), "data")
              devs == IF Truthy(got) THEN got.l ELSE <<>>
          IN /\ last_page' = devs
             /\ hosts' = hosts \cup HostNames(devs)
             /\ IF Len(devs) < PageSize
                THEN pc' = "done" /\ page_index' = page_index
                ELSE pc' = pc /\ page_index' = Min(page_index + 1, MaxPageNo)
    /\ UNCHANGED <<remote, nextId, interfered, inputs, callNo, selector, desired, matches,
                   current, ret, fail, calls, fetched, remote0, first, routine, all_len,
                   utils, race>>

NextPaging ==
    \/ PagedRequest
    \/ DevicesPage
    \/ SitesPage
    \/ InventoryPage

\* every answer arrives and the loop that waits for it goes on
SpecPaging ==
    /\ InitPaging
    /\ [][NextPaging]_vars
    /\ WF_vars(PagedRequest)
    /\ WF_vars(DevicesPage)
    /\ WF_vars(SitesPage)
    /\ WF_vars(InventoryPage)

\* ------------------------------------------------------------------------
\* Properties of the pagination loops (specification SpecPaging)
\* ------------------------------------------------------------------------
\* iter_paged has issued at most max_pages requests and goes on only after a
\* page of page_size records
PagerBounded ==
    routine \in PagerRoutines
        => /\ Len(calls) <= MaxPages
           /\ (pc = "scan" /\ Len(calls) > 0) => Len(last_page) >= PageSize /\ Len(last_page) > 0

\* C18: iter_paged and _iter_sites always terminate, whatever the remote
\* system answers: at most max_pages list requests, none after a page that
\* is empty or holds fewer than page_size records
C18_IterPagedTerminates ==
    /\ []PagerBounded
    /\ (routine \in PagerRoutines) ~> (pc \in {"done", "raised"})

C18_Witness ==
    /\ routine = "find_candidates" /\ pc = "done"
    /\ Len(calls) = MaxPages /\ Len(last_page) = PageSize

\* C19: paged_get_devices, paged_get_sites and the device loop of the
\* inventory plugin end after finitely many list requests, whatever the
\* remote system answers
C19_OtherLoopsTerminate == (routine \in LoopRoutines) ~> (pc = "done")

\* C20: find_by_selector_or_name and _find_site return the first record, in
\* page order, that matches, None when none does, and the page that holds
\* that record is the last one they request
C20_FirstMatchIsLazy ==
    (routine \in {"find_by_selector_or_name", "_find_site"} /\ pc = "done")
        => IF \E i \in 1..Len(fetched) : Selected(fetched[i])
           THEN /\ current = fetched[Len(fetched)]
                /\ Selected(current)
                /\ \A i \in 1..(Len(fetched) - 1) : ~Selected(fetched[i])
                /\ \E i \in 1..Len(last_page) :
                      /\ last_page[i] = current
                      /\ \A j \in 1..(i - 1) : ~Selected(last_page[j])
                      /\ SubSeq(fetched, Len(fetched) - i + 1, Len(fetched))
                            = SubSeq(last_page, 1, i)
                /\ Len(calls) = page_index + 1
           ELSE IsNull(current)

C20_Witness ==
    /\ routine = "find_by_selector_or_name" /\ pc = "done"
    /\ Len(calls) = 2 /\ Len(calls) < MaxPages
    /\ current = PgFirst
    /\ last_page = FullPageMatchFirst
    /\ Len(fetched) = PageSize + 1


\* ------------------------------------------------------------------------
\* Two runs of ensure_idempotent_state with state=present against the same
\* collection: the runs share nothing but the remote system, and every
\* request of a run is one step
\* ------------------------------------------------------------------------
Runs == {1, 2}

RaceRemotes ==
    { <<>>,
      <<WithId(RecA, 1)>>,
      <<WithId(RecB, 1)>>,
      <<WithId(RecB, 1), WithId(RecA, 2)>> }

RaceSelectors == {Null, Dict([city |-> Str("X"), name |-> Null])}

RaceObjects ==
    { Dict([name |-> Str("S1"), timezone |-> Str("T")]),
      Dict([name |-> Str("S1"), tags |-> List(<<Str("a")>>), timezone |-> Null]),
      Dict([name |-> Str("S1"), city |-> Str("X")]) }

NewRun(obj) ==
    [pc |-> "start", in_object |-> obj, desired |-> Null, page_index |-> 0,
     matches |-> <<>>, current |-> Null, ret |-> NoRet, fail |-> NoFail, calls |-> <<>>]

\* line 82: both runs are given the same selector
RaceSelector == prune_unset(OrEmptyDict(in_selector))

\* what a run did to the remote system: the start and the end of its lookup,
\* its create (with the id the record got) and its update
Event(i, k, obj_id, p) == [run |-> i, kind |-> k, id |-> obj_id, payload |-> p]

\* the remote system stores the body of a PUT under the id of the path
StoreUpdateMerged(stored, payload) == deep_merge(stored, payload)

StoreUpdate(stored, payload) == WithId(payload, Get(stored, "id").n)

InitRace ==
    /\ remote \in RaceRemotes
    /\ nextId = Len(remote) + 1
    /\ filterExact \in BOOLEAN
    /\ in_selector \in RaceSelectors
    /\ in_object = Null
    /\ in_state = "present"
    /\ check_mode = FALSE
    /\ InitRun
    /\ PagingIdle
    /\ UtilsIdle
    /\ runs \in {<<NewRun(a), NewRun(b)>> : a, b \in RaceObjects}
    /\ events = <<>>

\* lines 82-86
RaceCall(i) ==
    /\ runs[i].pc = "start"
    /\ LET des == prune_unset(OrEmptyDict(runs[i].in_object))
       IN runs' = [runs EXCEPT ![i].desired = des,
                               ![i].pc = IF NameMissing(Get(des, "name")) THEN "failed"
                                         ELSE "scan",
                               ![i].fail = IF NameMissing(Get(des, "name"))
                                           THEN [msg |-> "name_required", matches |-> <<>>,
                                                 count |-> 0]
                                           ELSE NoFail]
    /\ UNCHANGED <<run, paging, utils, events>>

\* lines 99-115 for state=present outside check mode
RaceOutcome(candidates, des) ==
    IF Len(candidates) > 1
    THEN [pc |-> "failed", current |-> Null, ret |-> NoRet,
          fail |-> [msg |-> "ambiguous", matches |-> Preview(candidates),
                    count |-> Len(candidates)]]
    ELSE LET cur == IF Len(candidates) = 0 THEN Null ELSE candidates[1]
             current_stripped == strip_readonly(cur, READONLY_KEYS)
             diff_struct == build_before_after(current_stripped, des, {}, <<>>)
             Done(r) == [pc |-> "done", current |-> cur, ret |-> r, fail |-> NoFail]
             Goto(l) == [pc |-> l, current |-> cur, ret |-> NoRet, fail |-> NoFail]
         IN IF ~Truthy(cur) THEN Goto("create")
            ELSE IF IsRaise(diff_struct) THEN Goto("raised")
            ELSE IF NoDiff(diff_struct) THEN Done(Ret(FALSE, Null, current_stripped, cur))
            ELSE Goto("update")

\* line 88: one page of the lookup of run i
RaceFetchPage(i) ==
    /\ runs[i].pc = "scan"
    /\ LET r == runs[i]
           name == Get(r.desired, "name")
           query == ListQuery(BaseFilters(RaceSelector, name), r.page_index)
           items == ExtractItems(RemoteList(query))
           Hit(it) == Matches(it, RaceSelector, name)
           found == r.matches \o SelectSeq(items, Hit)
           more == ~PageEnds(items) /\ r.page_index + 1 < MaxPages
           o == RaceOutcome(found, r.desired)
           started == IF r.page_index = 0 THEN <<Event(i, "lookup", Null, Null)>> ELSE <<>>
           ended == IF more THEN <<>> ELSE <<Event(i, "looked", Null, Null)>>
       IN /\ runs' = [runs EXCEPT ![i] =
                        IF more
                        THEN [r EXCEPT !.calls = Append(@, Request("list", Null, Null, query)),
                                       !.matches = found,
                                       !.page_index = @ + 1]
                        ELSE [r EXCEPT !.calls = Append(@, Request("list", Null, Null, query)),
                                       !.matches = found,
                                       !.pc = o.pc,
                                       !.current = o.current,
                                       !.ret = o.ret,
                                       !.fail = o.fail]]
          /\ events' = events \o started \o ended
    /\ UNCHANGED <<run, paging, utils>>

\* lines 104-106
RaceCreate(i) ==
    /\ runs[i].pc = "create"
    /\ LET r == runs[i]
           req == make_create_request(r.desired)
           created == WithId(req.payload, nextId)
       IN /\ remote' = Append(remote, created)
          /\ nextId' = nextId + 1
          /\ runs' = [runs EXCEPT ![i] =
                        [r EXCEPT !.calls = Append(@, req),
                                  !.ret = Ret(TRUE, CreateDiff(r.desired),
                                              strip_readonly(created, READONLY_KEYS), Null),
                                  !.pc = "done"]]
          /\ events' = Append(events, Event(i, "create", Num(nextId), req.payload))
    /\ UNCHANGED <<filterExact, interfered, in_selector, in_object, in_state, check_mode,
                   pc, callNo, selector, desired, page_index, matches, current, ret, fail,
                   calls, fetched, remote0, first, paging, utils>>

\* lines 117-121
RaceUpdate(i) ==
    /\ runs[i].pc = "update"
    /\ LET r == runs[i]
           current_stripped == strip_readonly(r.current, READONLY_KEYS)
           diff_struct == build_before_after(current_stripped, r.desired, {}, <<>>)
           payload == deep_merge(current_stripped, r.desired)
           obj_id == Get(r.current, id_key)
           req == make_update_request(obj_id, payload)
           n == IF IsNull(req.id) THEN 0 ELSE IndexOfId(remote, req.id)
           updated == StoreUpdate(remote[n], req.payload)
       IN IF n = 0
          THEN /\ runs' = [runs EXCEPT ![i] =
                             [r EXCEPT !.calls = Append(@, NotFound(req)),
                                       !.pc = "failed",
                                       !.fail = [msg |-> "http_404", matches |-> <<>>,
                                                 count |-> 0]]]
               /\ UNCHANGED <<remote, events>>
          ELSE /\ remote' = [remote EXCEPT ![n] = updated]
               /\ runs' = [runs EXCEPT ![i] =
                             [r EXCEPT !.calls = Append(@, req),
                                       !.ret = Ret(TRUE, diff_struct,
                                                   strip_readonly(updated, READONLY_KEYS),
                                                   r.current),
                                       !.pc = "done"]]
               /\ events' = Append(events, Event(i, "update", obj_id, req.payload))
    /\ UNCHANGED <<nextId, filterExact, interfered, in_selector, in_object, in_state,
                   check_mode, pc, callNo, selector, desired, page_index, matches, current,
                   ret, fail, calls, fetched, remote0, first, paging, utils>>

NextRace ==
    \E i \in Runs :
        \/ RaceCall(i)
        \/ RaceFetchPage(i)
        \/ RaceCreate(i)
        \/ RaceUpdate(i)

SpecRace == InitRace /\ [][NextRace]_vars

\* ------------------------------------------------------------------------
\* Properties of two racing runs (specification SpecRace)
\* ------------------------------------------------------------------------
RaceDone == \A i \in Runs : runs[i].pc \in {"done", "failed", "raised"}

EventsOfKind(k) == SelectSeq(events, LAMBDA e : e.kind = k)

\* every event of kind k comes after the lookups of both runs have ended
BothLookedBefore(k) ==
    \A j \in 1..Len(events) :
        events[j].kind = k
            => \A i \in Runs : \E h \in 1..(j - 1) :
                   events[h].kind = "looked" /\ events[h].run = i

\* record r meets the criteria of run i: the selector when there is one, the
\* desired name otherwise
RaceSelected(r, i) ==
    IF Truthy(RaceSelector)
    THEN \A k \in DOMAIN RaceSelector.d : k \in DOMAIN r.d /\ r.d[k] = RaceSelector.d[k]
    ELSE "name" \in DOMAIN r.d /\ r.d["name"] = Get(runs[i].desired, "name")

\* the desired object of run i asks for something record r does not hold
AsksChange(i, r) ==
    ~IsNull(subset_diff(strip_readonly(r, READONLY_KEYS), runs[i].desired, {}, <<>>))

NoMatchAtStart ==
    \A i \in Runs : \A n \in 1..Len(remote0) : ~RaceSelected(remote0[n], i)

CreatesOf(i) == SelectSeq(events, LAMBDA e : e.kind = "create" /\ e.run = i)

\* C29 as stated: two runs with the same desired name and selector, started
\* on a collection without a matching record, issue at most one create
\* between them and leave exactly one record of that name
C29_NoDuplicateCreation ==
    (/\ RaceDone
     /\ NoMatchAtStart
     /\ Get(runs[1].desired, "name") = Get(runs[2].desired, "name"))
        => /\ Len(EventsOfKind("create")) <= 1
           /\ Cardinality({n \in 1..Len(remote) :
                              Get(remote[n], "name") = Get(runs[1].desired, "name")}) = 1

\* C29: of two runs with the same desired name and selector started on a
\* collection without a matching record, each issues at most one create; a
\* run whose lookup starts after the other run's create, when the created
\* record meets its criteria, issues none; and when both lookups have ended
\* before either create, both runs create and the collection gains two
\* records
C29_CreatesFollowLookups ==
    (/\ RaceDone
     /\ NoMatchAtStart
     /\ Get(runs[1].desired, "name") = Get(runs[2].desired, "name"))
        => /\ \A i \in Runs : Len(CreatesOf(i)) <= 1
           /\ \A i, j \in Runs :
                 (/\ i # j
                  /\ \E c, l \in 1..Len(events) :
                        /\ c < l
                        /\ events[c].kind = "create" /\ events[c].run = j
                        /\ events[l].kind = "lookup" /\ events[l].run = i
                        /\ RaceSelected(WithId(events[c].payload, events[c].id.n), i))
                    => Len(CreatesOf(i)) = 0
           /\ BothLookedBefore("create")
                 => /\ \A i \in Runs : Len(CreatesOf(i)) = 1 /\ runs[i].ret.changed
                    /\ Len(remote) = Len(remote0) + 2
                    /\ \A e \in {events[c] : c \in 1..Len(events)} :
                          e.kind = "create"
                             => \E n \in 1..Len(remote) :
                                   remote[n] = WithId(runs[e.run].desired, e.id.n)

C29_Witness ==
    /\ RaceDone
    /\ remote0 = <<>>
    /\ ~Truthy(RaceSelector)
    /\ Len(EventsOfKind("create")) = 2
    /\ Cardinality({n \in 1..Len(remote) : Get(remote[n], "name") = Str("S1")}) = 2

====
